---- MODULE Spec2Model ----
(***************************************************************************)
(* A model of the catering backend's JSON-file routers: bookings           *)
(* (src/backend/routes/bookings.js), promo codes (promo-codes.js), menu    *)
(* (menu.js) and offers (offers.js).                                       *)
(*                                                                         *)
(* The server is one Node.js process.  A handler runs on the single        *)
(* JavaScript thread from its start to its first `await`, and from one     *)
(* `await` to the next; only at an `await` can another handler run.  The   *)
(* variable `thread` is that thread: the request whose handler is in the   *)
(* middle of a synchronous stretch, or "none".  The bookings router uses   *)
(* fs.readFileSync / fs.writeFileSync (no await), the other routers use    *)
(* `await fs.readFile` / `await fs.writeFile`.                             *)
(***************************************************************************)
EXTENDS Integers, Sequences, FiniteSets, TLC

VARIABLES
  files,    \* files[c]: the JSON array stored in the data file of collection c
  now,      \* the wall clock (new Date()), in abstract instants
  pc,       \* pc[r]: where request r is: idle, pending, reading, writing, done
  req,      \* req[r]: the request: collection, operation, :id / :date, body
  local,    \* local[r]: the handler's in-memory array (bookings, promoCodes, ...)
  res,      \* res[r]: the response sent (or, while writing, about to be sent)
  thread,   \* the request holding the JavaScript thread, or "none"
  overlapped, \* history: overlapped[r] = r was in flight together with another
              \* request on the same collection
  db        \* the SQLite database: the tables bookings, booking_items, receipts

vars == <<files, now, pc, req, local, res, thread, overlapped, db>>

(***************************************************************************)
(* Bounds of the model.                                                    *)
(***************************************************************************)
MaxInit == 2       \* stored bookings in the initial bookings file
MaxBookings == 3   \* creations are taken up while the bookings file is shorter
MaxTime == 2       \* the clock runs 0..MaxTime
MaxStored == 2     \* promo codes in the store a validation is run against
MaxPromos == 2     \* promo codes are created while the store is shorter
MaxRaceItems == 2  \* racing creations are taken up while the file is shorter
MaxMenuInit == 2   \* menu items in the menu file a request is run against
MaxOffers == 2     \* offers in the offers file the active filter is run against
MaxRows == 2       \* bookings in the initial bookings table
MaxReceipts == 1   \* receipts are generated while the receipts table is shorter

Reqs == {"r1", "r2"}
Colls == {"bookings", "promo", "menu", "offers"}

(***************************************************************************)
(* JavaScript values.  A string-valued booking field is a string, with     *)
(* Undef for a field that is absent (undefined).                           *)
(***************************************************************************)
Undef == "<undefined>"
TruthyStr(s) == s # Undef /\ s # ""
\* a || b on string-or-undefined values
OrStr(a, b) == IF TruthyStr(a) THEN a ELSE b

Range(s) == {s[i] : i \in DOMAIN s}
MaxOf(S) == CHOOSE m \in S : \A k \in S : k <= m

(***************************************************************************)
(* Responses.  error is the message as a tuple of its parts; payload is    *)
(* the list the response carries; at is the instant the handler sampled.   *)
(***************************************************************************)
NoRes == [status |-> 0, error |-> <<>>, payload |-> <<>>, at |-> 0]
Ok(status, payload) == [status |-> status, error |-> <<>>, payload |-> payload, at |-> 0]
Err(status, msg) == [status |-> status, error |-> msg, payload |-> <<>>, at |-> 0]

NoReq == [coll |-> "none", op |-> "none", id |-> 0, date |-> Undef, body |-> <<>>]

\* what a handler does after its read: the response, and the array to write if any
Respond(r) == [res |-> r, write |-> FALSE, data |-> <<>>]
WriteThen(data, r) == [res |-> r, write |-> TRUE, data |-> data]

(***************************************************************************)
(* Bookings: src/backend/routes/bookings.js                                *)
(***************************************************************************)
Dates == {"d1", "d2"}
allSlots == <<"morning", "afternoon">>
Slots == Range(allSlots)

\* a stored booking: the fields the availability scan and the conflict check read
Booking(id, eventDate, event_date, timeSlot, time_slot) ==
  [id |-> id, eventDate |-> eventDate, event_date |-> event_date,
   timeSlot |-> timeSlot, time_slot |-> time_slot]

\* the shapes a record of bookings.json has: written by POST /bookings
\* (eventDate, timeSlot), or carrying the alternate names the routes also read
BookingShapes(id, d, s) ==
  { Booking(id, d, Undef, s, Undef),
    Booking(id, Undef, d, Undef, s),
    Booking(id, d, Undef, Undef, s) }

\* bookings.js:40 and :61
EventDateOf(b) == OrStr(b.eventDate, b.event_date)
SlotOf(b) == OrStr(b.timeSlot, b.time_slot)

getAvailableSlotsTimeSlotOnly(dateBookings) ==
  LET bookedSlots == {b.timeSlot : b \in {x \in Range(dateBookings) : TruthyStr(x.timeSlot)}}
  IN  SelectSeq(allSlots, LAMBDA slot : slot \notin bookedSlots)

getAvailableSlots(dateBookings) ==
  LET mapped == [i \in DOMAIN dateBookings |->
                   OrStr(dateBookings[i].timeSlot, dateBookings[i].time_slot)]
      bookedSlots == SelectSeq(mapped, LAMBDA slot : TruthyStr(slot))
  IN  SelectSeq(allSlots, LAMBDA slot : slot \notin Range(bookedSlots))

\* GET /bookings/availability/:date, after readJSONFile
HandleAvailability(date, bookings) ==
  LET dateBookings == SelectSeq(bookings,
                        LAMBDA booking : OrStr(booking.eventDate, booking.event_date) = date)
  IN  Respond(Ok(200, getAvailableSlots(dateBookings)))

MissingFields == <<"Missing required fields">>
ConflictMsg(timeSlot, eventDate) ==
  <<"The", timeSlot, "time slot is already booked for", eventDate>>

\* POST /bookings: the required-field validation that precedes the read
ValidateBookingCreate(body) ==
  IF ~TruthyStr(body.eventDate) \/ ~TruthyStr(body.timeSlot) \/ body.nItems = 0
  THEN Err(400, MissingFields)
  ELSE NoRes

\* bookings.js:171-174: bookings.find(...) is truthy
conflictingBooking(bookings, eventDate, timeSlot) ==
  \E i \in DOMAIN bookings :
    /\ bookings[i].eventDate = eventDate
    /\ (bookings[i].timeSlot = timeSlot \/ bookings[i].time_slot = timeSlot)

\* Math.max(0, ...bookings.map(b => b.id || 0)) + 1
BookingNewId(bookings) == MaxOf({0} \cup {b.id : b \in Range(bookings)}) + 1

\* POST /bookings, after readJSONFile
HandleBookingCreate(body, bookings) ==
  IF conflictingBooking(bookings, body.eventDate, body.timeSlot)
  THEN Respond(Err(400, ConflictMsg(body.timeSlot, body.eventDate)))
  ELSE LET newBooking == Booking(BookingNewId(bookings), body.eventDate, Undef,
                                 body.timeSlot, Undef)
       IN  WriteThen(Append(bookings, newBooking), Ok(201, <<newBooking>>))

(***************************************************************************)
(* Text.  A code, a name or a title is a tuple of characters, so that      *)
(* toUpperCase() and trim() are computed character by character.           *)
(* UndefStr is a field that is absent from the request body.               *)
(***************************************************************************)
UndefStr == <<Undef>>
TruthyText(s) == s # UndefStr /\ s # <<>>

UpperChar(c) == CASE c = "a" -> "A" [] c = "b" -> "B" [] c = "c" -> "C" [] OTHER -> c
ToUpperCase(s) == [i \in 1..Len(s) |-> UpperChar(s[i])]

RECURSIVE TrimStart(_)
TrimStart(s) == IF s # <<>> /\ Head(s) = " " THEN TrimStart(Tail(s)) ELSE s
RECURSIVE TrimEnd(_)
TrimEnd(s) == IF s # <<>> /\ s[Len(s)] = " " THEN TrimEnd(SubSeq(s, 1, Len(s) - 1)) ELSE s
Trim(s) == TrimEnd(TrimStart(s))

(***************************************************************************)
(* Numbers, instants and null/undefined, tagged so that every field has    *)
(* one shape: Num(n) a number, At(k) the ISO string of instant k, NullV    *)
(* null, UndefV undefined.                                                 *)
(***************************************************************************)
Num(n) == [t |-> "number", n |-> n]
At(k) == [t |-> "date", n |-> k]
NullV == [t |-> "null", n |-> 0]
UndefV == [t |-> "undefined", n |-> 0]
\* JavaScript truthiness: 0, null and undefined are falsy, a date string is not
Truthy(v) == (v.t = "number" /\ v.n # 0) \/ v.t = "date"
OrV(a, b) == IF Truthy(a) THEN a ELSE b
\* parseInt / parseFloat of a number of the model (the model's numbers are integers)
ParseInt(v) == Num(v.n)
\* a string that is not the text of a number, such as 'abc'
TextV == [t |-> "string", n |-> 0]
NaNV == [t |-> "NaN", n |-> 0]
\* the number a value is converted to by a comparison with a number: null is 0,
\* undefined and a non-numeric string are NaN
ToNumber(v) == CASE v.t = "number" -> v [] v.t = "null" -> Num(0) [] OTHER -> NaNV
\* v < k for a number k: false when v converts to NaN
LessThan(v, k) == ToNumber(v).t = "number" /\ ToNumber(v).n < k
\* parseFloat(v): a number is itself; null, undefined and non-numeric text give NaN
ParseFloat(v) == IF v.t = "number" THEN v ELSE NaNV
\* JSON.stringify writes NaN as null
JsonNumber(v) == IF v.t = "NaN" THEN NullV ELSE v
\* Boolean(x) of a body field given as "true", "false" or Undef, with its default
BooleanOf(x, default) == IF x = Undef THEN default ELSE x = "true"

(***************************************************************************)
(* Promo codes: src/backend/routes/promo-codes.js                          *)
(***************************************************************************)
Promo(id, code, discountPercent, usageLimit, usageCount, startAt, endAt, active) ==
  [id |-> id, code |-> code, discountPercent |-> discountPercent,
   usageLimit |-> usageLimit, usageCount |-> usageCount,
   startAt |-> startAt, endAt |-> endAt, active |-> active]

CodeRequired == <<"Promo code is required">>
InvalidCode == <<"Invalid promo code">>
NotActive == <<"Promo code is no longer active">>
NotYetActive == <<"Promo code is not yet active">>
Expired == <<"Promo code has expired">>
LimitReached == <<"Promo code usage limit reached">>
CodeAndDiscountRequired == <<"Code and discount percentage are required">>
DiscountRange == <<"Discount percentage must be between 1 and 100">>
AlreadyExists == <<"Promo code already exists">>
PromoNotFound == <<"Promo code not found">>

\* promoCodes.find(p => p.code.toUpperCase() === code.toUpperCase()): its index, 0 if none
FindCodeCaseSensitive(promoCodes, code) ==
  LET hits == {i \in DOMAIN promoCodes : promoCodes[i].code = code}
  IN  IF hits = {} THEN 0 ELSE CHOOSE i \in hits : \A j \in hits : i <= j

FindCode(promoCodes, code) ==
  LET hits == {i \in DOMAIN promoCodes :
                 ToUpperCase(promoCodes[i].code) = ToUpperCase(code)}
  IN  IF hits = {} THEN 0 ELSE CHOOSE i \in hits : \A j \in hits : i <= j

FindIdOrFirst(list, id) ==
  IF \E i \in DOMAIN list : list[i].id = id
  THEN CHOOSE i \in DOMAIN list : list[i].id = id /\ \A j \in 1..(i - 1) : list[j].id # id
  ELSE IF list = <<>> THEN 0 ELSE 1

\* findIndex(x => x.id === id): the index, 0 if none (-1 in the code)
FindId(list, id) ==
  LET hits == {i \in DOMAIN list : list[i].id = id}
  IN  IF hits = {} THEN 0 ELSE CHOOSE i \in hits : \A j \in hits : i <= j

\* POST /promo-codes/validate
ValidatePromoValidate(body) ==
  IF ~TruthyText(body.code) THEN Err(400, CodeRequired) ELSE NoRes

\* the checks of promo-codes.js:57-77 on the code found, at instant t
PromoChecksUsageFirst(promoCode, t) ==
  IF Truthy(promoCode.usageLimit) /\ promoCode.usageCount.n >= promoCode.usageLimit.n
    THEN Err(400, LimitReached)
  ELSE IF ~promoCode.active THEN Err(400, NotActive)
  ELSE IF Truthy(promoCode.startAt) /\ promoCode.startAt.n > t THEN Err(400, NotYetActive)
  ELSE IF Truthy(promoCode.endAt) /\ promoCode.endAt.n < t THEN Err(400, Expired)
  ELSE Ok(200, <<promoCode>>)

PromoChecks(promoCode, t) ==
  IF ~promoCode.active THEN Err(400, NotActive)
  ELSE IF Truthy(promoCode.startAt) /\ promoCode.startAt.n > t THEN Err(400, NotYetActive)
  ELSE IF Truthy(promoCode.endAt) /\ promoCode.endAt.n < t THEN Err(400, Expired)
  ELSE IF Truthy(promoCode.usageLimit) /\ promoCode.usageCount.n >= promoCode.usageLimit.n
    THEN Err(400, LimitReached)
  ELSE Ok(200, <<promoCode>>)

HandlePromoValidateCounts(body, promoCodes, t) ==
  LET i == FindCode(promoCodes, body.code)
  IN  IF i = 0 THEN Respond(Err(404, InvalidCode))
      ELSE IF PromoChecks(promoCodes[i], t).status # 200
        THEN Respond(PromoChecks(promoCodes[i], t))
      ELSE WriteThen([promoCodes EXCEPT ![i].usageCount = Num(@.n + 1)],
                     PromoChecks(promoCodes[i], t))

HandlePromoValidate(body, promoCodes, t) ==
  LET i == FindCode(promoCodes, body.code)
  IN  IF i = 0 THEN Respond(Err(404, InvalidCode))
      ELSE Respond(PromoChecks(promoCodes[i], t))

\* POST /promo-codes: the checks that precede the read
ValidatePromoCreate(body) ==
  IF ~TruthyText(body.code) \/ ~Truthy(body.discountPercent)
    THEN Err(400, CodeAndDiscountRequired)
  ELSE IF body.discountPercent.n < 1 \/ body.discountPercent.n > 100
    THEN Err(400, DiscountRange)
  ELSE NoRes

NewIdByLength(list) == Len(list) + 1

\* promoCodes.length > 0 ? Math.max(...promoCodes.map(p => p.id || 0)) + 1 : 1
NewId(list) == IF Len(list) > 0 THEN MaxOf({x.id : x \in Range(list)}) + 1 ELSE 1

HandlePromoCreateOverwrite(body, promoCodes, t) ==
  IF FindCode(promoCodes, body.code) # 0 THEN Respond(Err(400, AlreadyExists))
  ELSE LET newPromoCode ==
             Promo(NewId(promoCodes), Trim(ToUpperCase(body.code)),
                   ParseInt(body.discountPercent),
                   IF Truthy(body.usageLimit) THEN ParseInt(body.usageLimit) ELSE NullV,
                   Num(0), OrV(body.startAt, At(t)), OrV(body.endAt, NullV),
                   BooleanOf(body.active, TRUE))
       IN  WriteThen(<<newPromoCode>>, Ok(201, <<newPromoCode>>))

\* POST /promo-codes, after readPromoData
HandlePromoCreate(body, promoCodes, t) ==
  IF FindCode(promoCodes, body.code) # 0 THEN Respond(Err(400, AlreadyExists))
  ELSE LET newPromoCode ==
             Promo(NewId(promoCodes),
                   Trim(ToUpperCase(body.code)),
                   ParseInt(body.discountPercent),
                   IF Truthy(body.usageLimit) THEN ParseInt(body.usageLimit) ELSE NullV,
                   Num(0),
                   OrV(body.startAt, At(t)),
                   OrV(body.endAt, NullV),
                   BooleanOf(body.active, TRUE))
       IN  WriteThen(Append(promoCodes, newPromoCode), Ok(201, <<newPromoCode>>))

MergeBodyWins(current, updates, id) ==
  [f \in DOMAIN current \cup DOMAIN updates |->
     IF f \in DOMAIN updates THEN updates[f] ELSE current[f]]

\* { ...current, ...updates, id: id }
Merge(current, updates, id) ==
  [f \in DOMAIN current \cup DOMAIN updates |->
     IF f = "id" THEN id
     ELSE IF f \in DOMAIN updates THEN updates[f] ELSE current[f]]

\* PUT /promo-codes/:id: { ...currentPromo, ...updates, id, updatedAt }
HandlePromoUpdate(promoId, updates, promoCodes, t) ==
  LET promoIndex == FindId(promoCodes, promoId)
  IN  IF promoIndex = 0 THEN Respond(Err(404, PromoNotFound))
      ELSE LET updatedPromo == Merge(Merge(promoCodes[promoIndex], updates, promoId),
                                     [updatedAt |-> At(t)], promoId)
           IN  WriteThen([promoCodes EXCEPT ![promoIndex] = updatedPromo],
                         Ok(200, <<updatedPromo>>))

\* PATCH /promo-codes/:id/toggle
HandlePromoToggle(promoId, body, promoCodes) ==
  LET promoIndex == FindId(promoCodes, promoId)
  IN  IF promoIndex = 0 THEN Respond(Err(404, PromoNotFound))
      ELSE LET toggled == [promoCodes[promoIndex] EXCEPT
                             !.active = BooleanOf(body.active, FALSE)]
           IN  WriteThen([promoCodes EXCEPT ![promoIndex] = toggled], Ok(200, <<toggled>>))

\* list.splice(index, 1)
Splice(list, index) == SubSeq(list, 1, index - 1) \o SubSeq(list, index + 1, Len(list))

\* DELETE /promo-codes/:id
HandlePromoDelete(promoId, promoCodes) ==
  LET promoIndex == FindId(promoCodes, promoId)
  IN  IF promoIndex = 0 THEN Respond(Err(404, PromoNotFound))
      ELSE WriteThen(Splice(promoCodes, promoIndex), Ok(200, <<promoCodes[promoIndex]>>))

(***************************************************************************)
(* Menu items (src/backend/routes/menu.js) and offers (offers.js):         *)
(* creation.                                                               *)
(***************************************************************************)
\* the id stored when JSON.stringify meets -Infinity: null
NullId == 0

MenuItem(id, itemName, description, category, pricePerServing, imageUrl, isAvailable) ==
  [id |-> id, itemName |-> itemName, description |-> description, category |-> category,
   pricePerServing |-> pricePerServing, imageUrl |-> imageUrl,
   isAvailable |-> isAvailable]

\* description || '' on a text field
OrEmpty(s) == IF TruthyText(s) THEN s ELSE <<>>

MenuMissing == <<"Missing required fields: itemName, category, pricePerServing">>
PriceNegative == <<"Price per serving must be non-negative">>

\* POST /menu: the checks that precede the read
ValidateMenuCreate(body) ==
  IF ~TruthyText(body.itemName) \/ ~TruthyText(body.category)
       \/ body.pricePerServing = UndefV
    THEN Err(400, MenuMissing)
  ELSE IF LessThan(body.pricePerServing, 0) THEN Err(400, PriceNegative)
  ELSE NoRes

\* Math.max(...menuItems.map(item => item.id || 0)) + 1: -Infinity on an empty menu
MenuNewId(menuItems) ==
  IF menuItems = <<>> THEN NullId ELSE MaxOf({x.id : x \in Range(menuItems)}) + 1

\* POST /menu, after readMenuData; the item as JSON.stringify writes it to the file
\* and to the response
HandleMenuCreate(body, menuItems) ==
  LET newItem == MenuItem(MenuNewId(menuItems), Trim(body.itemName),
                          OrEmpty(body.description), Trim(body.category),
                          JsonNumber(ParseFloat(body.pricePerServing)),
                          OrEmpty(body.imageUrl),
                          BooleanOf(body.isAvailable, TRUE))
  IN  WriteThen(Append(menuItems, newItem), Ok(201, <<newItem>>))

MenuNotFound == <<"Menu item not found">>

\* PUT /menu/:id: the check that precedes the read
ValidateMenuUpdateNoCheck(updates) == NoRes

ValidateMenuUpdate(updates) ==
  IF updates.pricePerServing # UndefV /\ LessThan(updates.pricePerServing, 0)
  THEN Err(400, PriceNegative)
  ELSE NoRes

\* menu.js:184-203: a copy of the current item with the provided fields replaced
UpdatedItemResetsDescription(currentItem, updates) ==
  [currentItem EXCEPT
     !.itemName = IF updates.itemName # UndefStr THEN Trim(updates.itemName) ELSE @,
     !.description = OrEmpty(updates.description),
     !.category = IF updates.category # UndefStr THEN Trim(updates.category) ELSE @,
     !.pricePerServing = IF updates.pricePerServing # UndefV
                         THEN JsonNumber(ParseFloat(updates.pricePerServing)) ELSE @,
     !.imageUrl = IF updates.imageUrl # UndefStr THEN updates.imageUrl ELSE @,
     !.isAvailable = BooleanOf(updates.isAvailable, @)]

UpdatedItem(currentItem, updates) ==
  [currentItem EXCEPT
     !.itemName = IF updates.itemName # UndefStr THEN Trim(updates.itemName) ELSE @,
     !.description = IF updates.description # UndefStr THEN updates.description ELSE @,
     !.category = IF updates.category # UndefStr THEN Trim(updates.category) ELSE @,
     !.pricePerServing = IF updates.pricePerServing # UndefV
                         THEN JsonNumber(ParseFloat(updates.pricePerServing)) ELSE @,
     !.imageUrl = IF updates.imageUrl # UndefStr THEN updates.imageUrl ELSE @,
     !.isAvailable = BooleanOf(updates.isAvailable, @)]

\* PUT /menu/:id, after readMenuData
HandleMenuUpdate(itemId, updates, menuItems) ==
  LET itemIndex == FindId(menuItems, itemId)
  IN  IF itemIndex = 0 THEN Respond(Err(404, MenuNotFound))
      ELSE LET updatedItem == UpdatedItem(menuItems[itemIndex], updates)
           IN  WriteThen([menuItems EXCEPT ![itemIndex] = updatedItem],
                         Ok(200, <<updatedItem>>))

\* DELETE /menu/:id
HandleMenuDelete(itemId, menuItems) ==
  LET itemIndex == FindId(menuItems, itemId)
  IN  IF itemIndex = 0 THEN Respond(Err(404, MenuNotFound))
      ELSE WriteThen(Splice(menuItems, itemIndex), Ok(200, <<menuItems[itemIndex]>>))

\* PATCH /menu/:id/availability
HandleMenuToggle(itemId, menuItems) ==
  LET itemIndex == FindId(menuItems, itemId)
  IN  IF itemIndex = 0 THEN Respond(Err(404, MenuNotFound))
      ELSE LET toggled == [menuItems[itemIndex] EXCEPT !.isAvailable = ~@]
           IN  WriteThen([menuItems EXCEPT ![itemIndex] = toggled], Ok(200, <<toggled>>))

Offer(id, title, startAt, endAt, active) ==
  [id |-> id, title |-> title, startAt |-> startAt, endAt |-> endAt, active |-> active]

TitleRequired == <<"Title is required">>

\* POST /offers: the check that precedes the read
ValidateOfferCreate(body) ==
  IF ~TruthyText(body.title) THEN Err(400, TitleRequired) ELSE NoRes

HandleOfferCreate(body, offers, t) ==
  LET newOffer == Offer(NewId(offers), Trim(body.title), OrV(body.startAt, At(t)),
                        OrV(body.endAt, NullV), BooleanOf(body.active, TRUE))
  IN  WriteThen(Append(offers, newOffer), Ok(201, <<newOffer>>))

\* the instants of new Date(0) and of new Date('2099-12-31') on the model's clock
Epoch == 0
FarFuture == 1

OfferInWindowEndRequired(offer, t) ==
  /\ offer.active
  /\ t >= (IF Truthy(offer.startAt) THEN offer.startAt.n ELSE Epoch)
  /\ Truthy(offer.endAt) /\ t <= offer.endAt.n

\* offers.js:47-54, the filter's predicate at the instant t of `now`
OfferInWindow(offer, t) ==
  IF ~offer.active THEN FALSE
  ELSE LET startDate == IF Truthy(offer.startAt) THEN offer.startAt.n ELSE Epoch
           endDate == IF Truthy(offer.endAt) THEN offer.endAt.n ELSE FarFuture
       IN  t >= startDate /\ t <= endDate

\* GET /offers/active, after readOffersData
HandleOffersActive(offers, t) ==
  Respond(Ok(200, SelectSeq(offers, LAMBDA offer : OfferInWindow(offer, t))))

OfferNotFound == <<"Offer not found">>

\* PUT /offers/:id: { ...currentOffer, ...updates, id, updatedAt }
HandleOfferUpdate(offerId, updates, offers, t) ==
  LET offerIndex == FindId(offers, offerId)
  IN  IF offerIndex = 0 THEN Respond(Err(404, OfferNotFound))
      ELSE LET updatedOffer == Merge(Merge(offers[offerIndex], updates, offerId),
                                     [updatedAt |-> At(t)], offerId)
           IN  WriteThen([offers EXCEPT ![offerIndex] = updatedOffer],
                         Ok(200, <<updatedOffer>>))

\* DELETE /offers/:id
HandleOfferDelete(offerId, offers) ==
  LET offerIndex == FindId(offers, offerId)
  IN  IF offerIndex = 0 THEN Respond(Err(404, OfferNotFound))
      ELSE WriteThen(Splice(offers, offerIndex), Ok(200, <<offers[offerIndex]>>))

\* GET /menu/:id
HandleMenuGet(itemId, menuItems) ==
  LET itemIndex == FindId(menuItems, itemId)
  IN  IF itemIndex = 0 THEN Respond(Err(404, MenuNotFound))
      ELSE Respond(Ok(200, <<menuItems[itemIndex]>>))

\* GET /offers and GET /promo-codes: the array as it was read
HandleList(data) == Respond(Ok(200, data))

(***************************************************************************)
(* The routers: a request q = [coll, op, id, date, body] is dispatched to  *)
(* its handler.  Validate is the part of the handler before the file is    *)
(* read (NoRes: go on), Handle the part after it.                          *)
(***************************************************************************)
Validate(q) ==
  CASE q.coll = "bookings" /\ q.op = "create" -> ValidateBookingCreate(q.body)
    [] q.coll = "promo" /\ q.op = "validate" -> ValidatePromoValidate(q.body)
    [] q.coll = "promo" /\ q.op = "create" -> ValidatePromoCreate(q.body)
    [] q.coll = "menu" /\ q.op = "create" -> ValidateMenuCreate(q.body)
    [] q.coll = "menu" /\ q.op = "update" -> ValidateMenuUpdate(q.body)
    [] q.coll = "offers" /\ q.op = "create" -> ValidateOfferCreate(q.body)
    [] OTHER -> NoRes

Handle(q, data, t) ==
  CASE q.coll = "bookings" /\ q.op = "availability" -> HandleAvailability(q.date, data)
    [] q.coll = "bookings" /\ q.op = "create" -> HandleBookingCreate(q.body, data)
    [] q.coll = "promo" /\ q.op = "validate" -> HandlePromoValidate(q.body, data, t)
    [] q.coll = "promo" /\ q.op = "create" -> HandlePromoCreate(q.body, data, t)
    [] q.coll = "promo" /\ q.op = "update" -> HandlePromoUpdate(q.id, q.body, data, t)
    [] q.coll = "promo" /\ q.op = "toggle" -> HandlePromoToggle(q.id, q.body, data)
    [] q.coll = "promo" /\ q.op = "delete" -> HandlePromoDelete(q.id, data)
    [] q.coll = "menu" /\ q.op = "create" -> HandleMenuCreate(q.body, data)
    [] q.coll = "menu" /\ q.op = "update" -> HandleMenuUpdate(q.id, q.body, data)
    [] q.coll = "menu" /\ q.op = "delete" -> HandleMenuDelete(q.id, data)
    [] q.coll = "menu" /\ q.op = "toggle" -> HandleMenuToggle(q.id, data)
    [] q.coll = "offers" /\ q.op = "create" -> HandleOfferCreate(q.body, data, t)
    [] q.coll = "offers" /\ q.op = "active" -> HandleOffersActive(data, t)
    [] q.coll = "offers" /\ q.op = "update" -> HandleOfferUpdate(q.id, q.body, data, t)
    [] q.coll = "offers" /\ q.op = "delete" -> HandleOfferDelete(q.id, data)
    [] q.coll = "menu" /\ q.op = "get" -> HandleMenuGet(q.id, data)
    [] q.coll \in {"offers", "promo"} /\ q.op = "list" -> HandleList(data)

AwaitsEverywhere(coll) == TRUE

\* whether the router of collection c reads and writes its file with `await`
\* (fs.promises) or synchronously (fs.readFileSync / fs.writeFileSync)
Awaits(coll) == coll # "bookings"

\* who may run the next stretch of request r's handler
Runner(r) == IF Awaits(req[r].coll) THEN "none" ELSE r

InFlight(r) == pc[r] \in {"pending", "reading", "caught", "writing"}

(***************************************************************************)
(* The steps of a request.                                                 *)
(***************************************************************************)
\* the request reaches the server
Arrive(r, q) ==
  /\ pc[r] = "idle"
  /\ pc' = [pc EXCEPT ![r] = "pending"]
  /\ req' = [req EXCEPT ![r] = q]
  /\ overlapped' = [x \in Reqs |->
                      IF x = r THEN \E y \in Reqs \ {r} : InFlight(y) /\ req[y].coll = q.coll
                      ELSE overlapped[x] \/ (InFlight(x) /\ req[x].coll = q.coll)]
  /\ UNCHANGED <<files, now, local, res, thread, db>>

\* the handler starts: it validates the request and asks for the file
Begin(r) ==
  /\ pc[r] = "pending"
  /\ thread = "none"
  /\ LET v == Validate(req[r])
     IN  IF v.status # 0
         THEN /\ pc' = [pc EXCEPT ![r] = "done"]
              /\ res' = [res EXCEPT ![r] = [v EXCEPT !.at = now]]
              /\ thread' = "none"
         ELSE /\ pc' = [pc EXCEPT ![r] = "reading"]
              /\ res' = res
              /\ thread' = Runner(r)
  /\ UNCHANGED <<files, now, req, local, overlapped, db>>

\* the handler has the file's content: it answers, or changes its array and
\* asks for the write
AfterRead(r) ==
  /\ pc[r] = "reading"
  /\ thread = Runner(r)
  /\ LET out == Handle(req[r], files[req[r].coll], now)
     IN  /\ res' = [res EXCEPT ![r] = [out.res EXCEPT !.at = now]]
         /\ IF out.write
            THEN /\ pc' = [pc EXCEPT ![r] = "writing"]
                 /\ local' = [local EXCEPT ![r] = out.data]
                 /\ thread' = Runner(r)
            ELSE /\ pc' = [pc EXCEPT ![r] = "done"]
                 /\ local' = [local EXCEPT ![r] = files[req[r].coll]]
                 /\ thread' = "none"
  /\ UNCHANGED <<files, now, req, overlapped, db>>

\* the write has replaced the file by the handler's array; the response goes out
AfterWrite(r) ==
  /\ pc[r] = "writing"
  /\ thread = Runner(r)
  /\ files' = [files EXCEPT ![req[r].coll] = local[r]]
  /\ pc' = [pc EXCEPT ![r] = "done"]
  /\ thread' = "none"
  /\ UNCHANGED <<now, req, local, res, overlapped, db>>

\* the client has its response; the slot r is free for another request
Finish(r) ==
  /\ pc[r] = "done"
  /\ pc' = [pc EXCEPT ![r] = "idle"]
  /\ req' = [req EXCEPT ![r] = NoReq]
  /\ local' = [local EXCEPT ![r] = <<>>]
  /\ res' = [res EXCEPT ![r] = NoRes]
  /\ overlapped' = [overlapped EXCEPT ![r] = FALSE]
  /\ UNCHANGED <<files, now, thread, db>>

Tick ==
  /\ now < MaxTime
  /\ now' = now + 1
  /\ UNCHANGED <<files, pc, req, local, res, thread, overlapped, db>>

NoFiles == [c \in Colls |-> <<>>]
NoDb == [bookings |-> <<>>, booking_items |-> {}, receipts |-> <<>>]

InitAll(f, t, d) ==
  /\ db = d
  /\ files = f
  /\ now = t
  /\ pc = [r \in Reqs |-> "idle"]
  /\ req = [r \in Reqs |-> NoReq]
  /\ local = [r \in Reqs |-> <<>>]
  /\ res = [r \in Reqs |-> NoRes]
  /\ thread = "none"
  /\ overlapped = [r \in Reqs |-> FALSE]

InitWith(f, t) == InitAll(f, t, NoDb)

(***************************************************************************)
(* Bookings, one request at a time.                                        *)
(***************************************************************************)
Pairs == Dates \X Slots
PairOf(b) == <<EventDateOf(b), SlotOf(b)>>
\* at most one booking per (event date, time slot)
UniquePairs(bookings) ==
  \A i, j \in DOMAIN bookings : PairOf(bookings[i]) = PairOf(bookings[j]) => i = j

\* the bookings files the server may start from: ids 1..n, one booking per pair
RECURSIVE BookingFilesOfLen(_)
BookingFilesOfLen(n) ==
  IF n = 0 THEN {<<>>}
  ELSE {Append(f, b) : f \in BookingFilesOfLen(n - 1),
                       b \in UNION {BookingShapes(n, p[1], p[2]) : p \in Pairs}}
InitBookingFiles ==
  {f \in UNION {BookingFilesOfLen(n) : n \in 0..MaxInit} : UniquePairs(f)}

AvailabilityReq(date) ==
  [coll |-> "bookings", op |-> "availability", id |-> 0, date |-> date, body |-> <<>>]
BookingCreateReq(eventDate, timeSlot, nItems) ==
  [coll |-> "bookings", op |-> "create", id |-> 0, date |-> Undef,
   body |-> [eventDate |-> eventDate, timeSlot |-> timeSlot, nItems |-> nItems]]

\* the requests sent: every date and slot, a slot outside the two, and one
\* request for each missing required field
BookingCreateReqs ==
  {BookingCreateReq(d, s, 1) : d \in Dates, s \in Slots \cup {"evening"}}
    \cup {BookingCreateReq(Undef, "morning", 1), BookingCreateReq("d1", Undef, 1),
          BookingCreateReq("d1", "morning", 0)}

ArriveAvailability(r) == \E d \in Dates : Arrive(r, AvailabilityReq(d))
ArriveBookingCreate(r) ==
  /\ Len(files["bookings"]) < MaxBookings
  /\ \E q \in BookingCreateReqs : Arrive(r, q)

InitBookings == \E f \in InitBookingFiles : InitWith([NoFiles EXCEPT !["bookings"] = f], 0)

NextBookings ==
  \/ ArriveAvailability("r1")
  \/ ArriveBookingCreate("r1")
  \/ Begin("r1")
  \/ AfterRead("r1")
  \/ AfterWrite("r1")
  \/ Finish("r1")

SpecBookings == InitBookings /\ [][NextBookings]_vars

\* request r is answered by this step
Answered(r) == pc[r] # "done" /\ pc'[r] = "done"
IsBookingCreate(r) == req[r].coll = "bookings" /\ req[r].op = "create"
\* a creation that carries its required fields
IsValidBookingCreate(r) == IsBookingCreate(r) /\ Validate(req[r]).status = 0
\* the pair (d, s) is held by a stored booking
Held(bookings, d, s) == \E b \in Range(bookings) : PairOf(b) = <<d, s>>

\* C1: the availability query answers 200 with exactly {morning, afternoon} minus the
\* slots of the stored bookings whose event date is the date asked for, whatever the
\* bookings of other dates.
C1_AvailabilityIsComplement ==
  \A r \in Reqs :
    (pc[r] = "done" /\ req[r].coll = "bookings" /\ req[r].op = "availability") =>
      /\ res[r].status = 200
      /\ Range(res[r].payload) =
           Slots \ {SlotOf(b) : b \in {x \in Range(files["bookings"]) :
                                         EventDateOf(x) = req[r].date}}
      /\ Len(res[r].payload) = Cardinality(Range(res[r].payload))

\* an availability answer that lost a slot to a booking stored under the alternate
\* field names, while a booking of another date is stored too
C1_Witness ==
  \E r \in Reqs :
    /\ pc[r] = "done" /\ req[r].op = "availability"
    /\ Len(res[r].payload) = 1
    /\ \E b \in Range(files["bookings"]) : EventDateOf(b) # req[r].date
    /\ \E b \in Range(files["bookings"]) : b.event_date = req[r].date

\* C2, as claimed: a creation whose (eventDate, timeSlot) is held by a stored booking is
\* answered with the conflict error naming the slot and the date, and leaves the stored
\* bookings as they were.
C2_Original ==
  [][\A r \in Reqs :
       (Answered(r) /\ IsValidBookingCreate(r)
          /\ Held(files["bookings"], req[r].body.eventDate, req[r].body.timeSlot)) =>
         /\ res'[r].status = 400
         /\ res'[r].error = ConflictMsg(req[r].body.timeSlot, req[r].body.eventDate)
         /\ files' = files]_vars

\* C3, as claimed: with creations handled one at a time, the stored bookings hold at
\* most one booking per (event date, time slot).
C3_Original == UniquePairs(files["bookings"])

\* C5, as claimed: a creation for (d, s) that carries its required fields is rejected
\* as a conflict exactly when s is not among the slots the availability query reports
\* for d on the same stored bookings.
C5_Original ==
  [][\A r \in Reqs :
       (Answered(r) /\ IsValidBookingCreate(r) /\ req[r].body.timeSlot \in Slots) =>
         ((res'[r].error = ConflictMsg(req[r].body.timeSlot, req[r].body.eventDate))
            <=> req[r].body.timeSlot \notin
                  Range(HandleAvailability(req[r].body.eventDate,
                                           files["bookings"]).res.payload))]_vars

(***************************************************************************)
(* Bookings, two creations in flight together.                             *)
(***************************************************************************)
ArriveRaceBooking(r) ==
  /\ Len(files["bookings"]) < MaxBookings
  /\ \E d \in Dates, s \in Slots : Arrive(r, BookingCreateReq(d, s, 1))

NextBookingsRace ==
  \E r \in Reqs :
    \/ ArriveRaceBooking(r)
    \/ Begin(r)
    \/ AfterRead(r)
    \/ AfterWrite(r)
    \/ Finish(r)

SpecBookingsRace == InitBookings /\ [][NextBookingsRace]_vars

MidHandler(r) == pc[r] \in {"reading", "writing"}

PromoReq(op, id, body) ==
  [coll |-> "promo", op |-> op, id |-> id, date |-> Undef, body |-> body]

\* validity window, usage limit and usage count of the stored codes: no window and no
\* limit; window [1, 1] and limit reached; window [1, 1] and limit not reached; a start
\* only; an end only with the limit 0 that PUT can store
StoredTerms ==
  { <<NullV, NullV, NullV, Num(0)>>,
    <<At(1), At(1), Num(1), Num(1)>>,
    <<At(1), At(1), Num(2), Num(1)>>,
    <<At(1), NullV, NullV, Num(0)>>,
    <<NullV, At(1), Num(0), Num(0)>> }

StoredPromos(id) ==
  { Promo(id, code, Num(10), w[3], w[4], w[1], w[2], active) :
      code \in {<<"A">>, <<"b">>}, w \in StoredTerms, active \in BOOLEAN }

RECURSIVE PromoFilesOfLen(_)
PromoFilesOfLen(n) ==
  IF n = 0 THEN {<<>>}
  ELSE {Append(f, p) : f \in PromoFilesOfLen(n - 1), p \in StoredPromos(n)}

ValidateCodes == {<<>>, <<"a">>, <<"B">>, <<"c">>}

ArriveValidate(r) == \E code \in ValidateCodes : Arrive(r, PromoReq("validate", 0, [code |-> code]))

InitValidate ==
  \E n \in 0..MaxStored : \E f \in PromoFilesOfLen(n) :
    InitWith([NoFiles EXCEPT !["promo"] = f], 0)

NextValidate ==
  \/ ArriveValidate("r1")
  \/ Begin("r1")
  \/ AfterRead("r1")
  \/ Finish("r1")
  \/ Tick

SpecValidate == InitValidate /\ [][NextValidate]_vars

IsValidateDone(r) == pc[r] = "done" /\ req[r].coll = "promo" /\ req[r].op = "validate"
\* the stored codes that match the submitted code case-insensitively
Matches(r) ==
  {i \in DOMAIN files["promo"] :
     ToUpperCase(files["promo"][i].code) = ToUpperCase(req[r].body.code)}
\* the code the validation is about: the first stored code that matches
Matched(r) == files["promo"][CHOOSE i \in Matches(r) : \A j \in Matches(r) : i <= j]
NotStarted(p, t) == p.startAt # NullV /\ p.startAt.n > t
Ended(p, t) == p.endAt # NullV /\ p.endAt.n < t
Exhausted(p) == Truthy(p.usageLimit) /\ ~(p.usageCount.n < p.usageLimit.n)

\* C7: on an existing code the validation reports the first failing reason in the order
\* active flag, start, end, usage limit: a code that is not active yields the not-active
\* reason whatever else fails; an active code outside its window yields the window
\* reason (not yet active, then expired) even when exhausted; the usage-limit reason is
\* reported only for an active code inside its window.
C7_FirstFailingReason ==
  \A r \in Reqs :
    (IsValidateDone(r) /\ Matches(r) # {}) =>
      LET p == Matched(r)
          t == res[r].at
      IN  /\ ~p.active => res[r].error = NotActive
          /\ (p.active /\ NotStarted(p, t)) => res[r].error = NotYetActive
          /\ (p.active /\ ~NotStarted(p, t) /\ Ended(p, t)) => res[r].error = Expired
          /\ res[r].error = LimitReached =>
               (p.active /\ ~NotStarted(p, t) /\ ~Ended(p, t) /\ Exhausted(p))

\* an inactive, expired and exhausted code answered with the not-active reason
C7_Witness ==
  \E r \in Reqs :
    /\ IsValidateDone(r) /\ Matches(r) # {}
    /\ ~Matched(r).active /\ Ended(Matched(r), res[r].at) /\ Exhausted(Matched(r))
    /\ res[r].error = NotActive

\* C8: the validation succeeds exactly when a stored code matches the submitted code
\* case-insensitively and that code (the first match) is active, not before its start,
\* not after its end and, with a limit set, below its limit; an active, started code
\* whose end is in the past fails with the expiry reason.
C8_ValidatesIff ==
  \A r \in Reqs :
    (IsValidateDone(r) /\ TruthyText(req[r].body.code)) =>
      /\ res[r].status = 200 <=>
           (/\ Matches(r) # {}
            /\ Matched(r).active
            /\ ~NotStarted(Matched(r), res[r].at)
            /\ ~Ended(Matched(r), res[r].at)
            /\ ~Exhausted(Matched(r)))
      /\ res[r].status = 200 => res[r].payload = <<Matched(r)>>
      /\ (Matches(r) # {} /\ Matched(r).active /\ ~NotStarted(Matched(r), res[r].at)
            /\ Ended(Matched(r), res[r].at)) => res[r].error = Expired

\* a code submitted in lower case validates against the stored upper-case code, inside
\* its window and below its limit
C8_Witness ==
  \E r \in Reqs :
    /\ IsValidateDone(r) /\ res[r].status = 200
    /\ req[r].body.code # res[r].payload[1].code
    /\ res[r].payload[1].startAt = At(1) /\ res[r].payload[1].endAt = At(1)
    /\ res[r].payload[1].usageLimit = Num(2)

(***************************************************************************)
(* Promo codes from an empty store, one request at a time.                 *)
(***************************************************************************)
PromoCreateBody(code, discountPercent) ==
  [code |-> code, discountPercent |-> discountPercent, usageLimit |-> UndefV,
   startAt |-> UndefV, endAt |-> UndefV, active |-> Undef]

\* codes in either case, with surrounding whitespace, empty; discounts missing, below,
\* inside and above 1..100
PromoCreateReqs ==
  { PromoReq("create", 0, PromoCreateBody(code, d)) :
      code \in {<<>>, <<"a">>, <<" ", "a">>, <<"B">>},
      d \in {UndefV, Num(0), Num(50), Num(101)} }

\* the bodies sent with PUT: a partial promo code
PromoUpdates ==
  { [discountPercent |-> Num(0)], [code |-> <<"b">>], [id |-> 2] }

ArrivePromoCreate(r) ==
  /\ Len(files["promo"]) < MaxPromos
  /\ \E q \in PromoCreateReqs : Arrive(r, q)
ArrivePromoUpdate(r) ==
  \E id \in 1..MaxPromos, u \in PromoUpdates : Arrive(r, PromoReq("update", id, u))
ArrivePromoToggle(r) ==
  \E id \in 1..MaxPromos, a \in {"true", "false"} :
    Arrive(r, PromoReq("toggle", id, [active |-> a]))
ArrivePromoDelete(r) ==
  \E id \in 1..MaxPromos : Arrive(r, PromoReq("delete", id, <<>>))

InitEmpty == InitWith(NoFiles, 0)

NextPromo ==
  \/ ArrivePromoCreate("r1")
  \/ ArrivePromoUpdate("r1")
  \/ ArrivePromoToggle("r1")
  \/ ArrivePromoDelete("r1")
  \/ Begin("r1")
  \/ AfterRead("r1")
  \/ AfterWrite("r1")
  \/ Finish("r1")

SpecPromo == InitEmpty /\ [][NextPromo]_vars

\* C9, as claimed: every stored promo code has a discount percentage between 1 and 100.
C9_Original ==
  \A p \in Range(files["promo"]) :
    p.discountPercent.t = "number" /\ p.discountPercent.n \in 1..100

\* C10, as claimed: no two stored promo codes have codes that are equal when compared
\* case-insensitively.
C10_Original ==
  \A i, j \in DOMAIN files["promo"] :
    ToUpperCase(files["promo"][i].code) = ToUpperCase(files["promo"][j].code) => i = j

(***************************************************************************)
(* Menu, offers and promo codes: two creations in flight together.         *)
(***************************************************************************)
MenuCreateReq(itemName) ==
  [coll |-> "menu", op |-> "create", id |-> 0, date |-> Undef,
   body |-> [itemName |-> itemName, description |-> UndefStr, category |-> <<"c">>,
             pricePerServing |-> Num(5), imageUrl |-> UndefStr, isAvailable |-> Undef]]
OfferCreateReq(title) ==
  [coll |-> "offers", op |-> "create", id |-> 0, date |-> Undef,
   body |-> [title |-> title, startAt |-> UndefV, endAt |-> UndefV, active |-> Undef]]

\* request r1 creates "a", request r2 creates "b"
RaceText(r) == IF r = "r1" THEN <<"a">> ELSE <<"b">>
RaceReqs(r) ==
  { PromoReq("create", 0, PromoCreateBody(RaceText(r), Num(50))),
    MenuCreateReq(RaceText(r)),
    OfferCreateReq(RaceText(r)) }

ArriveRaceCreate(r) ==
  \E q \in RaceReqs(r) : Len(files[q.coll]) < MaxRaceItems /\ Arrive(r, q)

NextRace ==
  \E r \in Reqs :
    \/ ArriveRaceCreate(r)
    \/ Begin(r)
    \/ AfterRead(r)
    \/ AfterWrite(r)
    \/ Finish(r)

SpecRace == InitEmpty /\ [][NextRace]_vars

IsCreated(r) == pc[r] = "done" /\ req[r].op = "create" /\ res[r].status = 201
\* request r was answered success and the entity it created is not in the stored file
LostUpdate(r) == IsCreated(r) /\ res[r].payload[1] \notin Range(files[req[r].coll])

\* C6: a creation on the menu, offers or promo-code file is a read-modify-write of the
\* whole file without locking. An entity whose creation was answered success is missing
\* from the stored file only if the creation overlapped another request on that file;
\* that it can then be missing is the witness.
C6_LostOnlyWhenOverlapping ==
  \A r \in Reqs : LostUpdate(r) => overlapped[r]

\* two overlapping creations on the promo-code file, both answered success, and the
\* stored file holds the promo code of only one of them
C6_Witness ==
  /\ \A r \in Reqs : IsCreated(r) /\ req[r].coll = "promo" /\ overlapped[r]
  /\ \E r \in Reqs : LostUpdate(r)
  /\ Len(files["promo"]) = 1

\* the same on the menu file and on the offers file
C6_WitnessMenu ==
  /\ \A r \in Reqs : IsCreated(r) /\ req[r].coll = "menu" /\ overlapped[r]
  /\ \E r \in Reqs : LostUpdate(r)
C6_WitnessOffers ==
  /\ \A r \in Reqs : IsCreated(r) /\ req[r].coll = "offers" /\ overlapped[r]
  /\ \E r \in Reqs : LostUpdate(r)

(***************************************************************************)
(* Tokens and the middleware of the auth helper (src/unnamed/part_000).    *)
(* A token is what jwt.sign made of a payload, an expiry and a secret, or  *)
(* a string that is no JWT at all.                                         *)
(***************************************************************************)
JWT_SECRET == "JWT_SECRET"
\* JWT_EXPIRES_IN, in instants of the model's clock
JWT_EXPIRES_IN == 1

User(id, userType) ==
  [id |-> id, email |-> <<"u", id>>, userType |-> userType, username |-> <<"n", id>>]
NoUser == [id |-> 0, email |-> <<>>, userType |-> "none", username |-> <<>>]

\* jwt.sign(payload, secret, {expiresIn}) at instant t
Sign(payload, secret, expiresIn, t) ==
  [wellFormed |-> TRUE, payload |-> payload, exp |-> t + expiresIn, secret |-> secret]
\* a string that does not parse as a JWT
Malformed == [wellFormed |-> FALSE, payload |-> NoUser, exp |-> 0, secret |-> "none"]

generateToken(user, t) ==
  Sign([id |-> user.id, email |-> user.email, userType |-> user.userType,
        username |-> user.username], JWT_SECRET, JWT_EXPIRES_IN, t)

\* jwt.verify(token, secret) at instant t: the error's name ("none": no error) and the
\* decoded payload
JwtVerifyIgnoresExpiry(token, secret, t) ==
  IF ~token.wellFormed \/ token.secret # secret
  THEN [err |-> "JsonWebTokenError", user |-> NoUser]
  ELSE [err |-> "none", user |-> token.payload]

JwtVerify(token, secret, t) ==
  IF ~token.wellFormed THEN [err |-> "JsonWebTokenError", user |-> NoUser]
  ELSE IF token.secret # secret THEN [err |-> "JsonWebTokenError", user |-> NoUser]
  ELSE IF t >= token.exp THEN [err |-> "TokenExpiredError", user |-> NoUser]
  ELSE [err |-> "none", user |-> token.payload]

TokenRequired == <<"Access token required">>
TokenExpired == <<"Token expired">>
InvalidToken == <<"Invalid token">>
VerificationFailed == <<"Token verification failed">>
CustomerOrAdminRequired == <<"Customer or admin access required">>

\* the outcome of a middleware: the response it sends (NoRes: it calls next) and req.user
CallNext(user) == [res |-> NoRes, user |-> user]
Reject(r) == [res |-> r, user |-> NoUser]

\* authHeader is the Authorization header split at its spaces (<<>>: no header);
\* the token is authHeader.split(' ')[1]
authenticateToken(authHeader, t) ==
  IF Len(authHeader) < 2 THEN Reject(Err(401, TokenRequired))
  ELSE LET v == JwtVerify(authHeader[2], JWT_SECRET, t)
       IN  IF v.err = "TokenExpiredError" THEN Reject(Err(401, TokenExpired))
           ELSE IF v.err = "JsonWebTokenError" THEN Reject(Err(403, InvalidToken))
           ELSE IF v.err # "none" THEN Reject(Err(403, VerificationFailed))
           ELSE CallNext(v.user)

requireCustomerOrAdmin(user) ==
  IF user = NoUser \/ (user.userType # "customer" /\ user.userType # "admin")
  THEN Reject(Err(403, CustomerOrAdminRequired))
  ELSE CallNext(user)

(***************************************************************************)
(* The SQLite-backed routes: receipts.js (POST /generate, PATCH            *)
(* /:id/payment-status) and bookings.js (PATCH /:id/status, DELETE /:id).  *)
(* A column value is a number, a text or NULL.                             *)
(***************************************************************************)
SqlNum(n) == [t |-> "number", n |-> n, s |-> ""]
SqlText(s) == [t |-> "text", n |-> 0, s |-> s]
SqlNull == [t |-> "null", n |-> 0, s |-> ""]

BookingRow(id, user_id, total_amount, booking_status) ==
  [id |-> id, user_id |-> user_id, total_amount |-> total_amount,
   booking_status |-> booking_status]

DatabaseError == <<"Database error">>
BookingNotFound == <<"Booking not found">>
ReceiptNotFound == <<"Receipt not found">>
AccessDenied == <<"Access denied">>
ValidationErrors == <<"errors">>

PaymentStatuses == {"pending", "paid", "failed", "refunded"}
BookingStatuses == {"pending", "confirmed", "cancelled", "completed"}

\* if (!errors.isEmpty()) return res.status(400): the express-validator chains
ValidateSql(q) ==
  CASE q.op = "generate" ->
         IF q.body.bookingId.t # "number"
              \/ (q.body.paymentStatus # Undef /\ q.body.paymentStatus \notin PaymentStatuses)
         THEN Err(400, ValidationErrors) ELSE NoRes
    [] q.op = "payment" ->
         IF q.body.paymentStatus \notin PaymentStatuses
         THEN Err(400, ValidationErrors) ELSE NoRes
    [] q.op = "status" ->
         IF q.body.status \notin BookingStatuses
         THEN Err(400, ValidationErrors) ELSE NoRes
    [] OTHER -> NoRes

\* the row a db.get yields, <<>> when there is none
RowsWithId(table, id) == SelectSeq(table, LAMBDA row : row.id = id)
\* SELECT ... FROM bookings WHERE id = ?
GetBooking(d, id) == RowsWithId(d.bookings, id)
\* SELECT b.user_id FROM receipts r JOIN bookings b ON r.booking_id = b.id WHERE r.id = ?
GetReceiptOwner(d, id) ==
  LET r == RowsWithId(d.receipts, id)
  IN  IF r = <<>> \/ r[1].booking_id.t # "number" THEN <<>>
      ELSE RowsWithId(d.bookings, r[1].booking_id.n)

\* the row the handler's first query is about
TargetRow(q, d) ==
  CASE q.op = "generate" -> GetBooking(d, q.body.bookingId.n)
    [] q.op = "payment" -> GetReceiptOwner(d, q.id)
    [] OTHER -> GetBooking(d, q.id)

AccessCheckNoOwnerTest(user, row) == NoRes

\* if (req.user.userType !== 'admin' && row.user_id !== req.user.id) return 403
AccessCheck(user, row) ==
  IF user.userType # "admin" /\ row.user_id # user.id
  THEN Err(403, AccessDenied) ELSE NoRes

\* the callback of the first db.get
AfterGet(q, user, d) ==
  LET rows == TargetRow(q, d)
  IN  IF rows = <<>>
      THEN Err(404, IF q.op = "payment" THEN ReceiptNotFound ELSE BookingNotFound)
      ELSE AccessCheck(user, rows[1])

\* taxRate = 0.12, in percent
TaxRatePercent == 12

\* const subtotal = booking.total_amount || 0, and the tax and the total made of it
Subtotal(booking) ==
  IF booking.total_amount.t = "number" /\ booking.total_amount.n # 0
  THEN booking.total_amount.n ELSE 0
TaxAmount(subtotal) == (subtotal * TaxRatePercent) \div 100
TotalAmount(subtotal) == subtotal + TaxAmount(subtotal)

\* the columns the INSERT names, and the parameters the handler passes for them
ReceiptColumns ==
  <<"receipt_id", "booking_id", "receipt_number", "subtotal", "tax_rate", "tax_amount",
    "total_amount", "payment_method", "payment_status", "issued_date">>
ReceiptParams(body, booking, t) ==
  <<SqlText("RCP"), SqlNum(body.bookingId.n), SqlText("R"), SqlNum(Subtotal(booking)),
    SqlNum(TotalAmount(Subtotal(booking))),
    SqlText(IF body.paymentMethod = Undef THEN "Cash/Card" ELSE body.paymentMethod),
    SqlText(IF body.paymentStatus = Undef THEN "pending" ELSE body.paymentStatus),
    [t |-> "date", n |-> t, s |-> ""]>>

\* this.lastID of an INSERT: the new row's id
LastId(table) == MaxOf({0} \cup {row.id : row \in Range(table)}) + 1

\* db.run('INSERT INTO table (columns) VALUES (?, ...)', params): the i-th parameter is
\* bound to the i-th placeholder, a placeholder without a parameter stays NULL
InsertRow(table, columns, params) ==
  [c \in Range(columns) \cup {"id"} |->
     IF c = "id" THEN LastId(table)
     ELSE LET i == CHOOSE k \in DOMAIN columns : columns[k] = c
          IN  IF i <= Len(params) THEN params[i] ELSE SqlNull]

Statement(kind, id, value, params) ==
  [kind |-> kind, id |-> id, value |-> value, params |-> params]

\* the db.run calls of a handler that passed its checks, in order
Statements(q, booking, t) ==
  CASE q.op = "generate" ->
         <<Statement("INSERT receipts", 0, SqlNull, ReceiptParams(q.body, booking, t))>>
    [] q.op = "payment" ->
         <<Statement("UPDATE receipts", q.id, SqlText(q.body.paymentStatus), <<>>)>>
    [] q.op = "status" ->
         <<Statement("UPDATE bookings", q.id, SqlText(q.body.status), <<>>)>>
    [] q.op = "deleteBooking" ->
         <<Statement("DELETE booking_items", q.id, SqlNull, <<>>),
           Statement("DELETE bookings", q.id, SqlNull, <<>>)>>

\* the database after a statement has run
Run(stmt, d) ==
  CASE stmt.kind = "INSERT receipts" ->
         [d EXCEPT !.receipts = Append(@, InsertRow(@, ReceiptColumns, stmt.params))]
    [] stmt.kind = "UPDATE receipts" ->
         [d EXCEPT !.receipts =
            [i \in DOMAIN @ |-> IF @[i].id = stmt.id
                                THEN [@[i] EXCEPT !.payment_status = stmt.value]
                                ELSE @[i]]]
    [] stmt.kind = "UPDATE bookings" ->
         [d EXCEPT !.bookings =
            [i \in DOMAIN @ |-> IF @[i].id = stmt.id
                                THEN [@[i] EXCEPT !.booking_status = stmt.value]
                                ELSE @[i]]]
    [] stmt.kind = "DELETE booking_items" ->
         [d EXCEPT !.booking_items = {x \in @ : x.booking_id # stmt.id}]
    [] stmt.kind = "DELETE bookings" ->
         [d EXCEPT !.bookings = SelectSeq(@, LAMBDA row : row.id # stmt.id)]

RunFailed(stmt) ==
  CASE stmt.kind = "INSERT receipts" -> <<"Failed to create receipt">>
    [] stmt.kind = "UPDATE receipts" -> <<"Failed to update payment status">>
    [] stmt.kind = "UPDATE bookings" -> <<"Failed to update booking status">>
    [] stmt.kind = "DELETE booking_items" -> <<"Failed to delete booking items">>
    [] stmt.kind = "DELETE bookings" -> <<"Failed to delete booking">>

\* the receipt object of the 201 response (the customer and event fields left out)
ReceiptOf(lastID, body, booking) ==
  [id |-> lastID, receiptId |-> SqlText("RCP"), receiptNumber |-> SqlText("R"),
   subtotal |-> SqlNum(Subtotal(booking)),
   totalAmount |-> SqlNum(TotalAmount(Subtotal(booking))),
   paymentMethod |-> SqlText(IF body.paymentMethod = Undef THEN "Cash/Card"
                             ELSE body.paymentMethod),
   paymentStatus |-> SqlText(IF body.paymentStatus = Undef THEN "pending"
                             ELSE body.paymentStatus)]

\* the response after the last db.run, d being the database before it
Success(q, booking, d) ==
  IF q.op = "generate"
  THEN Ok(201, <<ReceiptOf(LastId(d.receipts), q.body, booking)>>)
  ELSE Ok(200, <<>>)

\* a request to a SQLite-backed route passes the middleware and the validation and
\* issues its first query
BeginSql(r) ==
  /\ pc[r] = "pending"
  /\ thread = "none"
  /\ LET a == authenticateToken(req[r].headers.authorization, now)
         c == IF a.res.status # 0 THEN a ELSE requireCustomerOrAdmin(a.user)
         v == IF c.res.status # 0 THEN c.res ELSE ValidateSql(req[r])
     IN  IF v.status # 0
         THEN /\ pc' = [pc EXCEPT ![r] = "done"]
              /\ res' = [res EXCEPT ![r] = [v EXCEPT !.at = now]]
              /\ local' = local
         ELSE /\ pc' = [pc EXCEPT ![r] = "reading"]
              /\ res' = res
              /\ local' = [local EXCEPT ![r] = [user |-> c.user, booking |-> <<>>,
                                                stmts |-> <<>>]]
  /\ UNCHANGED <<files, now, req, thread, overlapped, db>>

\* the callback of db.get: not found, access denied, or the next call
DbGet(r) ==
  /\ pc[r] = "reading"
  /\ LET v == AfterGet(req[r], local[r].user, db)
         booking == TargetRow(req[r], db)[1]
     IN  IF v.status # 0
         THEN /\ pc' = [pc EXCEPT ![r] = "done"]
              /\ res' = [res EXCEPT ![r] = [v EXCEPT !.at = now]]
              /\ local' = local
         ELSE /\ pc' = [pc EXCEPT ![r] =
                          IF req[r].op = "generate" THEN "items" ELSE "running"]
              /\ res' = res
              /\ local' = [local EXCEPT
                            ![r].booking = booking,
                            ![r].stmts = IF req[r].op = "generate" THEN <<>>
                                         ELSE Statements(req[r], booking, now)]
  /\ UNCHANGED <<files, now, req, thread, overlapped, db>>

\* the callback of db.all (the booking's items): the totals, then the INSERT
DbAll(r) ==
  /\ pc[r] = "items"
  /\ pc' = [pc EXCEPT ![r] = "running"]
  /\ local' = [local EXCEPT ![r].stmts = Statements(req[r], local[r].booking, now)]
  /\ UNCHANGED <<files, now, req, res, thread, overlapped, db>>

\* the statement in flight has run: the next statement, or the response
DbRun(r) ==
  /\ pc[r] = "running"
  /\ db' = Run(Head(local[r].stmts), db)
  /\ local' = [local EXCEPT ![r].stmts = Tail(@)]
  /\ IF Len(local[r].stmts) > 1
     THEN pc' = pc /\ res' = res
     ELSE /\ pc' = [pc EXCEPT ![r] = "done"]
          /\ res' = [res EXCEPT ![r] =
                       [Success(req[r], local[r].booking, db) EXCEPT !.at = now]]
  /\ UNCHANGED <<files, now, req, thread, overlapped>>

\* the database reports an error to the callback
DbFails(r) ==
  /\ pc[r] \in {"reading", "items", "running"}
  /\ pc' = [pc EXCEPT ![r] = "done"]
  /\ res' = [res EXCEPT ![r] =
               [Err(500, IF pc[r] = "running" THEN RunFailed(Head(local[r].stmts))
                         ELSE DatabaseError) EXCEPT !.at = now]]
  /\ UNCHANGED <<files, now, req, local, thread, overlapped, db>>

(***************************************************************************)
(* The SQLite-backed routes, one request at a time.                        *)
(***************************************************************************)
SqlReq(op, id, body, authorization) ==
  [coll |-> "db", op |-> op, id |-> id, date |-> Undef, body |-> body,
   headers |-> [authorization |-> authorization]]

customer1 == User(1, "customer")
customer2 == User(2, "customer")
admin == User(3, "admin")
staff == User(4, "staff")

\* the Authorization headers sent at instant t: none, a scheme without a token, a
\* string that is no JWT, a token signed with another secret, and tokens the server
\* issued: customer1's at any instant up to t, the others' at t
Headers(t) ==
  { <<>>, <<"Bearer">>, <<"Bearer", Malformed>>,
    <<"Bearer", Sign(admin, "guess", JWT_EXPIRES_IN, 0)>> }
    \cup {<<"Bearer", generateToken(customer1, i)>> : i \in (-1)..t}
    \cup {<<"Bearer", generateToken(u, t)>> : u \in {customer2, admin, staff}}

\* no header, and a token issued at t to each identity
FreshHeaders(t) ==
  {<<>>} \cup {<<"Bearer", generateToken(u, t)>> : u \in {customer1, customer2, admin, staff}}

\* booking i belongs to customer1 (odd i) or customer2 (even i)
InitBookingRows(n) ==
  [i \in 1..n |-> BookingRow(i, 2 - (i % 2),
                             IF i = 1 THEN SqlNum(1000) ELSE SqlNull, SqlText("pending"))]
\* a receipt as the claim describes it, for booking 1
InitReceipt ==
  [id |-> 1, receipt_id |-> SqlText("RCP"), booking_id |-> SqlNum(1),
   receipt_number |-> SqlText("R"), subtotal |-> SqlNum(1000),
   tax_rate |-> SqlNum(TaxRatePercent), tax_amount |-> SqlNum(120),
   total_amount |-> SqlNum(1120), payment_method |-> SqlText("Cash/Card"),
   payment_status |-> SqlText("pending"), issued_date |-> [t |-> "date", n |-> 0, s |-> ""]]
InitDbs ==
  { [bookings |-> InitBookingRows(n),
     booking_items |-> IF n = 0 THEN {} ELSE {[booking_id |-> 1, item_id |-> 1]},
     receipts |-> rs] :
      n \in 0..MaxRows, rs \in {<<>>, <<InitReceipt>>} }

GenerateBodies ==
  { [bookingId |-> b, paymentMethod |-> Undef, paymentStatus |-> Undef] :
      b \in {Num(i) : i \in 1..(MaxRows + 1)} \cup {TextV} }
    \cup { [bookingId |-> Num(1), paymentMethod |-> "GCash", paymentStatus |-> "bogus"] }

ArriveGenerate(r) ==
  /\ Len(db.receipts) < MaxReceipts
  /\ \E b \in GenerateBodies, h \in FreshHeaders(now) :
       Arrive(r, SqlReq("generate", 0, b, h))
ArrivePayment(r) ==
  \E id \in 1..(MaxReceipts + 1), ps \in {"paid", "bogus"}, h \in FreshHeaders(now) :
    (ps = "bogus" => id = 1) /\ Arrive(r, SqlReq("payment", id, [paymentStatus |-> ps], h))
\* a status update carrying one of the headers hs
ArriveStatus(r, hs) ==
  \E id \in 1..(MaxRows + 1), st \in {"confirmed", "bogus"}, h \in hs :
    (st = "bogus" => id = 1) /\ Arrive(r, SqlReq("status", id, [status |-> st], h))
ArriveDeleteBooking(r) ==
  \E id \in 1..(MaxRows + 1), h \in FreshHeaders(now) :
    Arrive(r, SqlReq("deleteBooking", id, <<>>, h))

InitSql == \E d \in InitDbs : InitAll(NoFiles, 0, d)

NextSql ==
  \/ ArriveGenerate("r1")
  \/ ArrivePayment("r1")
  \/ ArriveStatus("r1", FreshHeaders(now))
  \/ ArriveDeleteBooking("r1")
  \/ BeginSql("r1")
  \/ DbGet("r1")
  \/ DbAll("r1")
  \/ DbRun("r1")
  \/ DbFails("r1")
  \/ Finish("r1")

SpecSql == InitSql /\ [][NextSql]_vars

(***************************************************************************)
(* A protected route (PATCH /bookings/:id/status) as the clock advances    *)
(* and tokens expire.                                                      *)
(***************************************************************************)
InitAuth == InitAll(NoFiles, 0, CHOOSE d \in InitDbs : Len(d.bookings) = MaxRows /\ d.receipts = <<>>)

NextAuth ==
  \/ ArriveStatus("r1", Headers(now))
  \/ BeginSql("r1")
  \/ DbGet("r1")
  \/ DbRun("r1")
  \/ DbFails("r1")
  \/ Finish("r1")
  \/ Tick

SpecAuth == InitAuth /\ [][NextAuth]_vars

(***************************************************************************)
(* The menu: one request against a stored menu.                            *)
(***************************************************************************)
MenuReq(op, id, body) ==
  [coll |-> "menu", op |-> op, id |-> id, date |-> Undef, body |-> body]

MenuBody(itemName, description, category, pricePerServing, imageUrl, isAvailable) ==
  [itemName |-> itemName, description |-> description, category |-> category,
   pricePerServing |-> pricePerServing, imageUrl |-> imageUrl,
   isAvailable |-> isAvailable]

\* the menu files the request may meet: ids 1..n, every price a number >= 0, items as
\* POST /menu writes them (no description, no image) and as PUT completes them
StoredItems(id) ==
  { MenuItem(id, <<"a">>, x, <<"c">>, Num(p), x, a) :
      x \in {<<>>, <<"d">>}, p \in {0, 5}, a \in BOOLEAN }
RECURSIVE MenuFilesOfLen(_)
MenuFilesOfLen(n) ==
  IF n = 0 THEN {<<>>}
  ELSE {Append(f, x) : f \in MenuFilesOfLen(n - 1), x \in StoredItems(n)}

\* the prices a body carries: absent, negative, zero, positive, null, non-numeric text
BodyPrices == {UndefV, Num(-1), Num(0), Num(5), NullV, TextV}

\* creations: name and category present or absent, with every price
MenuCreateReqs ==
  { MenuReq("create", 0, MenuBody(n, UndefStr, c, p, UndefStr, Undef)) :
      n \in {UndefStr, <<>>, <<"a">>}, c \in {UndefStr, <<"c">>}, p \in BodyPrices }

\* updates: no field, each field alone, all fields, and a negative price alone and
\* together with the other fields
MenuUpdates ==
  { MenuBody(UndefStr, UndefStr, UndefStr, UndefV, UndefStr, Undef),
    MenuBody(<<" ", "b">>, UndefStr, UndefStr, UndefV, UndefStr, Undef),
    MenuBody(UndefStr, <<"e">>, UndefStr, UndefV, UndefStr, Undef),
    MenuBody(UndefStr, UndefStr, <<"k">>, UndefV, UndefStr, Undef),
    MenuBody(UndefStr, UndefStr, UndefStr, Num(7), UndefStr, Undef),
    MenuBody(UndefStr, UndefStr, UndefStr, UndefV, <<"j">>, Undef),
    MenuBody(UndefStr, UndefStr, UndefStr, UndefV, UndefStr, "false"),
    MenuBody(<<" ", "b">>, <<"e">>, <<"k">>, Num(7), <<"j">>, "false"),
    MenuBody(UndefStr, UndefStr, UndefStr, Num(-1), UndefStr, Undef),
    MenuBody(<<" ", "b">>, <<"e">>, <<"k">>, Num(-1), <<"j">>, "false"),
    MenuBody(UndefStr, UndefStr, UndefStr, NullV, UndefStr, Undef) }

ArriveMenuCreate(r) == \E q \in MenuCreateReqs : Arrive(r, q)
\* an update of a stored item, or of an id that no item has
ArriveMenuUpdate(r) ==
  \E id \in 1..(MaxMenuInit + 1), u \in MenuUpdates : Arrive(r, MenuReq("update", id, u))

InitMenu ==
  \E n \in 0..MaxMenuInit : \E f \in MenuFilesOfLen(n) :
    InitWith([NoFiles EXCEPT !["menu"] = f], 0)

NextMenu ==
  \/ ArriveMenuCreate("r1")
  \/ ArriveMenuUpdate("r1")
  \/ Begin("r1")
  \/ AfterRead("r1")
  \/ AfterWrite("r1")

SpecMenu == InitMenu /\ [][NextMenu]_vars

IsMenu(r, op) == req[r].coll = "menu" /\ req[r].op = op
IsNumberAtLeastZero(v) == v.t = "number" /\ v.n >= 0
IsNegativeNumber(v) == v.t = "number" /\ v.n < 0

\* C11, as claimed: a creation that lacks its name, its category or its price, or that
\* carries a negative price, is answered 400 and leaves the stored menu as it was; and
\* every stored menu item has a price per serving that is a number >= 0.
C11_Original ==
  [][/\ \A r \in Reqs :
          (/\ Answered(r) /\ IsMenu(r, "create")
           /\ \/ ~TruthyText(req[r].body.itemName)
              \/ ~TruthyText(req[r].body.category)
              \/ req[r].body.pricePerServing = UndefV
              \/ IsNegativeNumber(req[r].body.pricePerServing)) =>
            (res'[r].status = 400 /\ files' = files)
     /\ \A x \in Range(files'["menu"]) : IsNumberAtLeastZero(x.pricePerServing)]_vars

\* C12: an update that carries a negative price never gets past its validation: it is
\* answered 400 with the non-negative-price error and no step of it changes the stored
\* menu, whatever other fields it carries.
C12_NegativePriceRejected ==
  [][\A r \in Reqs :
       (IsMenu(r, "update") /\ IsNegativeNumber(req[r].body.pricePerServing)) =>
         /\ files' = files
         /\ pc'[r] \in {"pending", "done"}
         /\ Answered(r) => (res'[r].status = 400 /\ res'[r].error = PriceNegative)]_vars

\* an update of a stored item with a negative price and valid other fields was refused
C12_Witness ==
  \E r \in Reqs :
    /\ pc[r] = "done" /\ IsMenu(r, "update")
    /\ IsNegativeNumber(req[r].body.pricePerServing)
    /\ req[r].body.itemName # UndefStr /\ req[r].body.isAvailable # Undef
    /\ FindId(files["menu"], req[r].id) # 0
    /\ res[r].status = 400

\* C13: the write of an update answered 200 leaves the menu's length, every other item,
\* the target's id and every field of the target that the request does not provide as
\* they were.
C13_UpdateTouchesOnlyProvided ==
  [][\A r \in Reqs :
       (Answered(r) /\ IsMenu(r, "update") /\ res'[r].status = 200) =>
         LET old == files["menu"]
             new == files'["menu"]
             u == req[r].body
             i == FindId(old, req[r].id)
         IN  /\ i # 0 /\ Len(new) = Len(old)
             /\ \A j \in DOMAIN old : j # i => new[j] = old[j]
             /\ DOMAIN new[i] = DOMAIN old[i]
             /\ new[i].id = old[i].id
             /\ u.itemName = UndefStr => new[i].itemName = old[i].itemName
             /\ u.description = UndefStr => new[i].description = old[i].description
             /\ u.category = UndefStr => new[i].category = old[i].category
             /\ u.pricePerServing = UndefV => new[i].pricePerServing = old[i].pricePerServing
             /\ u.imageUrl = UndefStr => new[i].imageUrl = old[i].imageUrl
             /\ u.isAvailable = Undef => new[i].isAvailable = old[i].isAvailable]_vars

\* an update that provides only the availability was written: the stored item has the
\* new availability and its description, beside another stored item
C13_Witness ==
  \E r \in Reqs :
    /\ pc[r] = "done" /\ IsMenu(r, "update") /\ res[r].status = 200
    /\ req[r].body.isAvailable = "false" /\ req[r].body.description = UndefStr
    /\ req[r].body.itemName = UndefStr
    /\ Len(files["menu"]) = 2
    /\ LET x == files["menu"][FindId(files["menu"], req[r].id)]
       IN  ~x.isAvailable /\ x.description = <<"d">> /\ x = res[r].payload[1]

(***************************************************************************)
(* The active offers of a stored offers file, as the clock advances.       *)
(***************************************************************************)
OfferReq(op, id, body) ==
  [coll |-> "offers", op |-> op, id |-> id, date |-> Undef, body |-> body]

\* stored offers: active or not; no start, a start at 1 or at 2; no end, an end at 0
\* or at 1
StoredOffers(id) ==
  { Offer(id, <<"o">>, st, en, a) :
      st \in {NullV, At(1), At(2)}, en \in {NullV, At(0), At(1)}, a \in BOOLEAN }
RECURSIVE OfferFilesOfLen(_)
OfferFilesOfLen(n) ==
  IF n = 0 THEN {<<>>}
  ELSE {Append(f, o) : f \in OfferFilesOfLen(n - 1), o \in StoredOffers(n)}

ArriveOffersActive(r) == Arrive(r, OfferReq("active", 0, <<>>))

InitOffers ==
  \E n \in 0..MaxOffers : \E f \in OfferFilesOfLen(n) :
    InitWith([NoFiles EXCEPT !["offers"] = f], 0)

NextOffers ==
  \/ ArriveOffersActive("r1")
  \/ Begin("r1")
  \/ AfterRead("r1")
  \/ Finish("r1")
  \/ Tick

SpecOffers == InitOffers /\ [][NextOffers]_vars

IsActiveDone(r) == pc[r] = "done" /\ req[r].coll = "offers" /\ req[r].op = "active"
\* start <= t <= end, an absent start being the epoch and an absent end the far future
WithinWindow(o, t) ==
  /\ (IF o.startAt = NullV THEN Epoch ELSE o.startAt.n) <= t
  /\ t <= (IF o.endAt = NullV THEN FarFuture ELSE o.endAt.n)
Started(o, t) == o.startAt = NullV \/ o.startAt.n <= t
ReturnedExactly(r) ==
  res[r].status = 200
    /\ res[r].payload = SelectSeq(files["offers"],
                                  LAMBDA o : o.active /\ WithinWindow(o, res[r].at))

\* C14, amended: the answer is exactly the stored offers, in stored order, whose active
\* flag is set and for which start <= now <= end with the defaults; an active offer
\* with no end is therefore returned at every current time at or after its start that
\* is not after the far-future default.
C14_ActiveFilter ==
  \A r \in Reqs :
    IsActiveDone(r) =>
      /\ ReturnedExactly(r)
      /\ \A o \in Range(files["offers"]) :
           (o.active /\ o.endAt = NullV /\ Started(o, res[r].at)
              /\ res[r].at <= FarFuture) => o \in Range(res[r].payload)

\* at the far-future instant an active offer with a start and no end is returned, while
\* an inactive one and an ended one are not
C14_Witness ==
  \E r \in Reqs :
    /\ IsActiveDone(r) /\ res[r].at = FarFuture
    /\ Len(files["offers"]) = 2 /\ Len(res[r].payload) = 1
    /\ res[r].payload[1].startAt = At(1) /\ res[r].payload[1].endAt = NullV

\* C14, as claimed: the answer is exactly the active offers inside their window, and an
\* active offer with no end is returned at every current time at or after its start.
C14_Original ==
  \A r \in Reqs :
    IsActiveDone(r) =>
      /\ ReturnedExactly(r)
      /\ \A o \in Range(files["offers"]) :
           (o.active /\ o.endAt = NullV /\ Started(o, res[r].at)) =>
             o \in Range(res[r].payload)

IsSql(r, op) == req[r].coll = "db" /\ req[r].op = op
\* the token of request r, when its Authorization header carries one
TokenOf(r) == req[r].headers.authorization[2]
HasToken(r) == req[r].coll = "db" /\ Len(req[r].headers.authorization) >= 2
Signed(token) == token.wellFormed /\ token.secret = JWT_SECRET
\* request r carries a token the server signed that has not expired at instant t
Authenticated(r, t) == HasToken(r) /\ Signed(TokenOf(r)) /\ t < TokenOf(r).exp

\* C15, as claimed: every persisted receipt records the tax rate 12%, the tax amount
\* 0.12 x S and the total S + 0.12 x S for its subtotal S, and so does the receipt
\* returned by a generation answered 201.
C15_Original ==
  /\ \A row \in Range(db.receipts) :
       /\ row.subtotal.t = "number"
       /\ row.tax_rate = SqlNum(12)
       /\ row.tax_amount = SqlNum((12 * row.subtotal.n) \div 100)
       /\ row.total_amount = SqlNum(row.subtotal.n + (12 * row.subtotal.n) \div 100)
  /\ \A r \in Reqs :
       (pc[r] = "done" /\ IsSql(r, "generate") /\ res[r].status = 201) =>
         LET x == res[r].payload[1]
         IN  /\ {"taxRate", "taxAmount", "totalAmount"} \subseteq DOMAIN x
             /\ x.taxRate = SqlNum(12)
             /\ x.taxAmount = SqlNum((12 * x.subtotal.n) \div 100)
             /\ x.totalAmount = SqlNum(x.subtotal.n + (12 * x.subtotal.n) \div 100)

\* the owner of the booking that request r is about (for a payment-status update: the
\* booking its receipt is linked to), 0 when there is no such booking
LinkedOwner(r, d) ==
  LET bookingIds ==
        CASE req[r].op = "generate" -> {req[r].body.bookingId.n}
          [] req[r].op = "payment" ->
               {x.booking_id.n : x \in {y \in Range(d.receipts) : y.id = req[r].id}}
          [] OTHER -> {req[r].id}
      owners == {b.user_id : b \in {x \in Range(d.bookings) : x.id \in bookingIds}}
  IN  IF owners = {} THEN 0 ELSE CHOOSE o \in owners : TRUE
OwnerOrAdmin(r, d) ==
  TokenOf(r).payload.userType = "admin" \/ LinkedOwner(r, d) = TokenOf(r).payload.id

C17_VerifiedBeforeNext ==
  [][/\ now' >= now
     /\ \A r \in Reqs :
          (req[r].coll = "db" /\ pc[r] = "pending" /\ pc'[r] # "pending") =>
            /\ ~HasToken(r) =>
                 (pc'[r] = "done" /\ res'[r].status = 401 /\ res'[r].error = TokenRequired)
            /\ (HasToken(r) /\ ~Signed(TokenOf(r))) =>
                 (pc'[r] = "done" /\ res'[r].status = 403 /\ res'[r].error = InvalidToken)
            /\ (HasToken(r) /\ Signed(TokenOf(r)) /\ now >= TokenOf(r).exp) =>
                 (pc'[r] = "done" /\ res'[r].status = 401 /\ res'[r].error = TokenExpired)
            /\ pc'[r] = "reading" => Authenticated(r, now)]_vars

\* a token the server issued to customer1 is refused as expired after its expiry,
\* while the booking it was used on carries the status it set
C17_Witness ==
  \E r \in Reqs :
    /\ pc[r] = "done" /\ HasToken(r) /\ Signed(TokenOf(r))
    /\ TokenOf(r).payload = customer1
    /\ res[r].at > TokenOf(r).exp
    /\ res[r].status = 401 /\ res[r].error = TokenExpired
    /\ \E b \in Range(db.bookings) : b.user_id = 1 /\ b.booking_status = SqlText("confirmed")

(***************************************************************************)
(* Password policy of the auth helper (src/unnamed/part_000).  A password  *)
(* is a tuple of characters; a regular expression's test is the presence   *)
(* of a character of its class.                                            *)
(***************************************************************************)
\* [A-Z]
UpperCase == {"A", "B", "C", "D", "E", "F", "G", "H", "I", "J", "K", "L", "M",
              "N", "O", "P", "Q", "R", "S", "T", "U", "V", "W", "X", "Y", "Z"}
\* [a-z]
LowerCase == {"a", "b", "c", "d", "e", "f", "g", "h", "i", "j", "k", "l", "m",
              "n", "o", "p", "q", "r", "s", "t", "u", "v", "w", "x", "y", "z"}
\* \d
Digits == {"0", "1", "2", "3", "4", "5", "6", "7", "8", "9"}
\* [!@#$%^&*(),.?":{}|<>]
Special == {"!", "@", "#", "$", "%", "^", "&", "*", "(", ")", ",", ".", "?", "\"",
            ":", "{", "}", "|", "<", ">"}

\* regex.test(password) for a regex that is one character class
Test(class, password) == \E i \in 1..Len(password) : password[i] \in class

minLength == 8

TooShort == "Password must be at least 8 characters long"
NoUpperCase == "Password must contain at least one uppercase letter"
NoLowerCase == "Password must contain at least one lowercase letter"
NoNumber == "Password must contain at least one number"
NoSpecial == "Password must contain at least one special character"

\* errors.push(e) when the condition holds
Push(errors, cond, e) == IF cond THEN Append(errors, e) ELSE errors

calculatePasswordStrengthStrict(password) ==
  LET Point(b) == IF b THEN 1 ELSE 0
      score == Point(Len(password) >= 8) + Point(Len(password) >= 12)
                 + Point(Test(UpperCase, password)) + Point(Test(LowerCase, password))
                 + Point(Test(Digits, password)) + Point(Test(Special, password))
  IN  IF score < 3 THEN "weak" ELSE IF score < 6 THEN "medium" ELSE "strong"

calculatePasswordStrength(password) ==
  LET Point(b) == IF b THEN 1 ELSE 0
      score == Point(Len(password) >= 8) + Point(Len(password) >= 12)
                 + Point(Test(UpperCase, password)) + Point(Test(LowerCase, password))
                 + Point(Test(Digits, password)) + Point(Test(Special, password))
  IN  IF score < 3 THEN "weak" ELSE IF score < 5 THEN "medium" ELSE "strong"

validatePasswordStrengthAnyLength(password) ==
  LET e1 == Push(<<>>, ~Test(UpperCase, password), NoUpperCase)
      e2 == Push(e1, ~Test(LowerCase, password), NoLowerCase)
      e3 == Push(e2, ~Test(Digits, password), NoNumber)
      errors == Push(e3, ~Test(Special, password), NoSpecial)
  IN  [isValid |-> Len(errors) = 0, errors |-> errors,
       strength |-> calculatePasswordStrength(password)]

validatePasswordStrengthNoNumberCheck(password) ==
  LET e1 == Push(<<>>, Len(password) < minLength, TooShort)
      e2 == Push(e1, ~Test(UpperCase, password), NoUpperCase)
      e3 == Push(e2, ~Test(LowerCase, password), NoLowerCase)
      errors == Push(e3, ~Test(Special, password), NoSpecial)
  IN  [isValid |-> Len(errors) = 0, errors |-> errors,
       strength |-> calculatePasswordStrength(password)]

validatePasswordStrength(password) ==
  LET hasUpperCase == Test(UpperCase, password)
      hasLowerCase == Test(LowerCase, password)
      hasNumbers == Test(Digits, password)
      hasSpecial == Test(Special, password)
      e1 == Push(<<>>, Len(password) < minLength, TooShort)
      e2 == Push(e1, ~hasUpperCase, NoUpperCase)
      e3 == Push(e2, ~hasLowerCase, NoLowerCase)
      e4 == Push(e3, ~hasNumbers, NoNumber)
      errors == Push(e4, ~hasSpecial, NoSpecial)
  IN  [isValid |-> Len(errors) = 0, errors |-> errors,
       strength |-> calculatePasswordStrength(password)]

(***************************************************************************)
(* The password policy applied to one password at a time.                  *)
(***************************************************************************)
MaxPassword == 12

PasswordReq(password) ==
  [coll |-> "password", op |-> "validate", id |-> 0, date |-> Undef,
   body |-> [password |-> password]]

\* the kinds of character a password is built from, and two choices of a character of
\* each kind; "other" is a character of none of the four classes
Kinds == <<"upper", "lower", "digit", "special", "other">>
Choices == { [upper |-> "A", lower |-> "a", digit |-> "1", special |-> "!", other |-> "-"],
             [upper |-> "Z", lower |-> "z", digit |-> "9", special |-> ">", other |-> " "] }
OneOfEach(S, choice) ==
  LET kinds == SelectSeq(Kinds, LAMBDA k : k \in S)
  IN  [i \in 1..Len(kinds) |-> choice[kinds[i]]]
\* s, its last character repeated up to length n
RECURSIVE PadTo(_, _)
PadTo(s, n) == IF Len(s) >= n THEN s ELSE PadTo(Append(s, s[Len(s)]), n)

abc == <<"a", "b", "c">>
Abc12345 == <<"A", "b", "c", "1", "2", "3", "4", "5", "!">>

\* the passwords tried: the empty one, `abc`, `Abc12345!`, and for every non-empty set
\* of kinds and every length up to MaxPassword one password with exactly these kinds
Passwords ==
  {<<>>, abc, Abc12345}
    \cup { PadTo(OneOfEach(S, choice), n) :
             S \in SUBSET Range(Kinds) \ {{}}, choice \in Choices, n \in 1..MaxPassword }

ArrivePassword(r) == \E password \in Passwords : Arrive(r, PasswordReq(password))

\* the caller holds what validatePasswordStrength returned
CheckPassword(r) ==
  /\ pc[r] = "pending"
  /\ req[r].coll = "password"
  /\ thread = "none"
  /\ pc' = [pc EXCEPT ![r] = "done"]
  /\ local' = [local EXCEPT ![r] = validatePasswordStrength(req[r].body.password)]
  /\ UNCHANGED <<files, now, req, res, thread, overlapped, db>>

InitPassword == InitWith(NoFiles, 0)

NextPassword ==
  \/ ArrivePassword("r1")
  \/ CheckPassword("r1")
  \/ Finish("r1")

SpecPassword == InitPassword /\ [][NextPassword]_vars

IsChecked(r) == pc[r] = "done" /\ req[r].coll = "password"

\* the requirements a password does not meet, each with the reason reported for it
Unmet(password) ==
  {x \in { <<Len(password) < 8, TooShort>>,
           <<\A i \in DOMAIN password : password[i] \notin UpperCase, NoUpperCase>>,
           <<\A i \in DOMAIN password : password[i] \notin LowerCase, NoLowerCase>>,
           <<\A i \in DOMAIN password : password[i] \notin Digits, NoNumber>>,
           <<\A i \in DOMAIN password : password[i] \notin Special, NoSpecial>> } : x[1]}

\* C18: validatePasswordStrength reports a password valid exactly when it has at least
\* 8 characters and an upper-case letter, a lower-case letter, a digit and a character
\* of the special class; its error list holds one reason per unmet requirement and no
\* reason twice: `abc` gets the four reasons length, uppercase, number, special, and
\* `Abc12345!` is valid with no reason.
C18_ValidIffAllMet ==
  \A r \in Reqs :
    IsChecked(r) =>
      LET password == req[r].body.password
          out == local[r]
      IN  /\ out.isValid <=> Unmet(password) = {}
          /\ Range(out.errors) = {x[2] : x \in Unmet(password)}
          /\ Len(out.errors) = Cardinality(Unmet(password))
          /\ password = abc =>
               /\ ~out.isValid
               /\ Range(out.errors) = {TooShort, NoUpperCase, NoNumber, NoSpecial}
               /\ Len(out.errors) = 4
          /\ password = Abc12345 => out.isValid /\ out.errors = <<>>

\* `abc` has been checked and got its four reasons
C18_Witness ==
  \E r \in Reqs :
    /\ IsChecked(r)
    /\ req[r].body.password = abc
    /\ Len(local[r].errors) = 4

\* the points of a password: the number of the six criteria it meets
Score(password) ==
  Cardinality({k \in 1..6 :
    \/ k = 1 /\ Len(password) >= 8
    \/ k = 2 /\ Len(password) >= 12
    \/ k = 3 /\ Range(password) \cap UpperCase # {}
    \/ k = 4 /\ Range(password) \cap LowerCase # {}
    \/ k = 5 /\ Range(password) \cap Digits # {}
    \/ k = 6 /\ Range(password) \cap Special # {}})

\* C19: the strength label follows the point score (one point each for length >= 8,
\* length >= 12, upper case, lower case, digit, special character): below 3 weak, 3 or
\* 4 medium, 5 or 6 strong; valid and invalid passwords alike get a label, and
\* `Abc12345!` is graded medium or higher.
C19_LabelFollowsScore ==
  \A r \in Reqs :
    IsChecked(r) =>
      LET password == req[r].body.password
          out == local[r]
      IN  /\ out.strength = "weak" <=> Score(password) < 3
          /\ out.strength = "medium" <=> Score(password) \in {3, 4}
          /\ out.strength = "strong" <=> Score(password) \in {5, 6}
          /\ password = Abc12345 => out.strength \in {"medium", "strong"}

\* a password that is not valid has been graded strong (twelve characters with upper
\* case, lower case and a digit, but no special character)
C19_Witness ==
  \E r \in Reqs :
    /\ IsChecked(r)
    /\ ~local[r].isValid
    /\ local[r].strength = "strong"
    /\ Score(req[r].body.password) = 5

(***************************************************************************)
(* A write that fails.  writeJSONFile, writeMenuData, writeOffersData and  *)
(* writePromoData catch the error of fs.writeFileSync / fs.writeFile and   *)
(* return false; the handler then answers 500.  The write opens the file   *)
(* with the flag 'w', which empties it, and then writes: a failure at the  *)
(* opening leaves the file as it was, a failure after it leaves a file     *)
(* that is empty or cut short, which the next read cannot parse and takes  *)
(* as [].                                                                  *)
(***************************************************************************)
FailedToSave ==
  [bookings |-> <<"Failed to save booking">>, menu |-> <<"Failed to save menu item">>,
   offers |-> <<"Failed to save offer">>, promo |-> <<"Failed to save promo code">>]
FailedToDelete ==
  [menu |-> <<"Failed to delete menu item">>, offers |-> <<"Failed to delete offer">>,
   promo |-> <<"Failed to delete promo code">>]
FailedToToggle ==
  [menu |-> <<"Failed to update menu item availability">>,
   promo |-> <<"Failed to update promo code">>]

\* the handler's answer when its write returned false
WriteFailed(q) ==
  CASE q.op = "delete" -> Err(500, FailedToDelete[q.coll])
    [] q.op = "toggle" -> Err(500, FailedToToggle[q.coll])
    [] OTHER -> Err(500, FailedToSave[q.coll])

\* what a read finds in the file after a failed write of it
FailedWriteLeaves(data) == {data, <<>>}

\* the write has failed: the handler answers 500
AfterWriteFails(r) ==
  /\ pc[r] = "writing"
  /\ thread = Runner(r)
  /\ \E left \in FailedWriteLeaves(files[req[r].coll]) :
       files' = [files EXCEPT ![req[r].coll] = left]
  /\ res' = [res EXCEPT ![r] = [WriteFailed(req[r]) EXCEPT !.at = now]]
  /\ pc' = [pc EXCEPT ![r] = "done"]
  /\ thread' = "none"
  /\ UNCHANGED <<now, req, local, overlapped, db>>

(***************************************************************************)
(* The four JSON stores: one changing request, whose write may fail.       *)
(***************************************************************************)
MaxStoreInit == 1

\* the stores the request may meet: one collection holds up to MaxStoreInit items
InitStoreFiles ==
  UNION { {[NoFiles EXCEPT !["bookings"] = f] : f \in {g \in BookingFilesOfLen(n) : UniquePairs(g)}}
            \cup {[NoFiles EXCEPT !["menu"] = f] : f \in MenuFilesOfLen(n)}
            \cup {[NoFiles EXCEPT !["offers"] = f] : f \in OfferFilesOfLen(n)}
            \cup {[NoFiles EXCEPT !["promo"] = f] : f \in PromoFilesOfLen(n)}
          : n \in 0..MaxStoreInit }

StoreIds == 1..(MaxStoreInit + 1)

OfferUpdates == { [title |-> <<"u">>], [active |-> FALSE], [id |-> 2] }

ArriveMenuDelete(r) == \E id \in StoreIds : Arrive(r, MenuReq("delete", id, <<>>))
ArriveMenuToggle(r) == \E id \in StoreIds : Arrive(r, MenuReq("toggle", id, <<>>))
ArriveOfferCreate(r) == \E title \in {<<>>, <<"t">>} : Arrive(r, OfferCreateReq(title))
ArriveOfferUpdate(r) ==
  \E id \in StoreIds, u \in OfferUpdates : Arrive(r, OfferReq("update", id, u))
ArriveOfferDelete(r) == \E id \in StoreIds : Arrive(r, OfferReq("delete", id, <<>>))

InitStore == \E f \in InitStoreFiles : InitWith(f, 0)

NextStore ==
  \/ ArriveBookingCreate("r1")
  \/ ArriveMenuCreate("r1")
  \/ ArriveMenuUpdate("r1")
  \/ ArriveMenuDelete("r1")
  \/ ArriveMenuToggle("r1")
  \/ ArriveOfferCreate("r1")
  \/ ArriveOfferUpdate("r1")
  \/ ArriveOfferDelete("r1")
  \/ ArrivePromoCreate("r1")
  \/ ArrivePromoUpdate("r1")
  \/ ArrivePromoToggle("r1")
  \/ ArrivePromoDelete("r1")
  \/ Begin("r1")
  \/ AfterRead("r1")
  \/ AfterWrite("r1")
  \/ AfterWriteFails("r1")

SpecStore == InitStore /\ [][NextStore]_vars

\* the step in which request r's write ends without the file holding r's array
WriteFails(r) ==
  /\ pc[r] = "writing"
  /\ pc'[r] = "done"
  /\ files'[req[r].coll] # local[r]

\* to a failed write the handler answers 500 and not its success response
FailureAnswered(r) == res'[r].status = 500 /\ res'[r].payload = <<>>

\* C20, as claimed: when the write of a store's file fails in a create, update, toggle
\* or delete request, the request is answered 500, no success response is sent, and
\* the stored collection is the same as before the request.
C20_Original ==
  [][\A r \in Reqs : WriteFails(r) => FailureAnswered(r) /\ files' = files]_vars

(***************************************************************************)
(* A read that fails.  readJSONFile, readMenuData, readOffersData and      *)
(* readPromoData catch the error of the read or of JSON.parse, log it and  *)
(* return []: the handler goes on with an empty array.                     *)
(***************************************************************************)
\* the read or the parse has thrown: the helper's catch block runs
ReadFails(r) ==
  /\ pc[r] = "reading"
  /\ thread = Runner(r)
  /\ pc' = [pc EXCEPT ![r] = "caught"]
  /\ UNCHANGED <<files, now, req, local, res, thread, overlapped, db>>

\* the helper has returned []: the handler answers, or changes this array and asks
\* for the write
AfterCatch(r) ==
  /\ pc[r] = "caught"
  /\ thread = Runner(r)
  /\ LET out == Handle(req[r], <<>>, now)
     IN  /\ res' = [res EXCEPT ![r] = [out.res EXCEPT !.at = now]]
         /\ IF out.write
            THEN /\ pc' = [pc EXCEPT ![r] = "writing"]
                 /\ local' = [local EXCEPT ![r] = out.data]
                 /\ thread' = Runner(r)
            ELSE /\ pc' = [pc EXCEPT ![r] = "done"]
                 /\ local' = [local EXCEPT ![r] = <<>>]
                 /\ thread' = "none"
  /\ UNCHANGED <<files, now, req, overlapped, db>>

(***************************************************************************)
(* The four JSON stores: one request, whose read may fail.                 *)
(***************************************************************************)
ArriveList(r) ==
  \E coll \in {"offers", "promo"} :
    Arrive(r, [coll |-> coll, op |-> "list", id |-> 0, date |-> Undef, body |-> <<>>])
ArriveMenuGet(r) == \E id \in StoreIds : Arrive(r, MenuReq("get", id, <<>>))

NextReadFail ==
  \/ ArriveList("r1")
  \/ ArriveMenuGet("r1")
  \/ ArriveAvailability("r1")
  \/ ArriveBookingCreate("r1")
  \/ ArriveMenuCreate("r1")
  \/ ArriveMenuUpdate("r1")
  \/ ArriveMenuDelete("r1")
  \/ ArriveMenuToggle("r1")
  \/ ArriveOfferCreate("r1")
  \/ ArriveOfferUpdate("r1")
  \/ ArriveOfferDelete("r1")
  \/ ArrivePromoCreate("r1")
  \/ ArrivePromoUpdate("r1")
  \/ ArrivePromoToggle("r1")
  \/ ArrivePromoDelete("r1")
  \/ Begin("r1")
  \/ AfterRead("r1")
  \/ ReadFails("r1")
  \/ AfterCatch("r1")
  \/ AfterWrite("r1")

SpecReadFail == InitStore /\ [][NextReadFail]_vars

\* the step in which request r's handler answers, or asks for its write, after its
\* read has failed
ReadFailedStep(r) == pc[r] = "caught" /\ pc'[r] # "caught"

\* C21, as claimed: when the read of a store's file fails in a list, get, create,
\* update or delete request, the request is answered 500, not with a success and not
\* with a not-found response.
C21_Original ==
  [][\A r \in Reqs : ReadFailedStep(r) => res'[r].status = 500]_vars

\* request r names, by its id, an entity of a store that has get, update, delete or
\* toggle by id, and no stored entity has this id
NamesNoEntity(r) ==
  /\ req[r].coll \in {"menu", "offers", "promo"}
  /\ req[r].op \in {"get", "update", "delete", "toggle"}
  /\ \A i \in DOMAIN files[req[r].coll] : files[req[r].coll][i].id # req[r].id

\* the step in which the handler of r leaves its validation or its read
Decides(r) == pc[r] \in {"pending", "reading", "caught"} /\ pc'[r] \notin {"pending", "reading", "caught"}

SpecBookingsEmpty == InitEmpty /\ [][NextBookings]_vars

\* C23, as claimed: after any sequence of booking creations from an empty store, every
\* stored booking has the time slot morning or afternoon (a creation with another slot
\* stores nothing).
C23_Original ==
  \A i \in DOMAIN files["bookings"] : files["bookings"][i].timeSlot \in Slots

(***************************************************************************)
(* The menu's changing routes, reached with and without the headers of an  *)
(* administrator.  menu.js defines isAdmin(req); no handler calls it.      *)
(***************************************************************************)
\* req.headers.authorization || req.headers['user-type'] === 'admin'
isAdmin(headers) == TruthyStr(headers.authorization) \/ headers.userType = "admin"

\* the headers a request carries: none of the two, a user type, a bearer token
MenuHeaders ==
  { [authorization |-> a, userType |-> u] :
      a \in {Undef, "Bearer token"}, u \in {Undef, "customer", "admin"} }

WithHeaders(q, headers) ==
  [f \in DOMAIN q \cup {"headers"} |-> IF f = "headers" THEN headers ELSE q[f]]

\* create, update, delete and toggle requests on the menu
MenuChanges ==
  MenuCreateReqs
    \cup {MenuReq("update", id, u) : id \in 1..(MaxMenuInit + 1), u \in MenuUpdates}
    \cup {MenuReq(op, id, <<>>) : op \in {"delete", "toggle"}, id \in 1..(MaxMenuInit + 1)}

ArriveMenuChange(r) ==
  \E q \in MenuChanges, headers \in MenuHeaders : Arrive(r, WithHeaders(q, headers))

NextMenuChange ==
  \/ ArriveMenuChange("r1")
  \/ Begin("r1")
  \/ AfterRead("r1")
  \/ AfterWrite("r1")

SpecMenuChange == InitMenu /\ [][NextMenuChange]_vars

\* C24, as claimed: a create, update, delete or availability toggle of the menu that
\* does not come from an administrator is refused with an authorization error and never
\* changes the stored menu.
C24_Original ==
  [][\A r \in Reqs :
       (req[r].coll = "menu" /\ ~isAdmin(req[r].headers)) =>
         /\ files'["menu"] = files["menu"]
         /\ Decides(r) => res'[r].status \in {401, 403}
    ]_vars

(***************************************************************************)
(* Promo codes and offers: one update against a stored collection.         *)
(***************************************************************************)
InitUpdate ==
  \/ \E n \in 0..MaxStored : \E f \in PromoFilesOfLen(n) :
       InitWith([NoFiles EXCEPT !["promo"] = f], 0)
  \/ \E n \in 0..MaxOffers : \E f \in OfferFilesOfLen(n) :
       InitWith([NoFiles EXCEPT !["offers"] = f], 0)

NextUpdate ==
  \/ ArrivePromoUpdate("r1")
  \/ ArriveOfferUpdate("r1")
  \/ Begin("r1")
  \/ AfterRead("r1")
  \/ AfterWrite("r1")

SpecUpdate == InitUpdate /\ [][NextUpdate]_vars

IsUpdate(r) == req[r].coll \in {"promo", "offers"} /\ req[r].op = "update"

\* C25: a PUT of a promo code or of an offer that succeeds keeps the entity under the
\* id of the URL, whatever the body holds (an id field included), keeps the number of
\* stored entities and leaves every other entity as it was.
C25_UpdateKeepsId ==
  [][\A r \in Reqs :
       (IsUpdate(r) /\ pc[r] = "writing" /\ pc'[r] = "done" /\ res'[r].status = 200) =>
         LET before == files[req[r].coll]
             after == files'[req[r].coll]
         IN  /\ Len(after) = Len(before)
             /\ \A i \in DOMAIN before :
                  /\ after[i].id = before[i].id
                  /\ before[i].id # req[r].id => after[i] = before[i]
             /\ \E i \in DOMAIN after : after[i].id = req[r].id
             /\ res'[r].payload[1].id = req[r].id
    ]_vars

\* an update of entity 1 whose body says id 2 has been written to a store of two
\* entities, and the store still holds the ids 1 and 2 in this order
C25_Witness ==
  \E r \in Reqs :
    /\ IsUpdate(r) /\ pc[r] = "done" /\ res[r].status = 200
    /\ req[r].id = 1
    /\ "id" \in DOMAIN req[r].body /\ req[r].body.id = 2
    /\ Len(files[req[r].coll]) = 2
    /\ files[req[r].coll][1].id = 1 /\ files[req[r].coll][2].id = 2
    /\ "updatedAt" \in DOMAIN files[req[r].coll][1]

(***************************************************************************)
(* The four JSON stores from empty: creations, updates and deletions, one  *)
(* request at a time.  Each handler reads and writes the file of its own   *)
(* collection only; a behaviour fills one collection.                      *)
(***************************************************************************)
MaxCrud == 2

CrudIds == 1..(MaxCrud + 1)

CrudReqs ==
  {BookingCreateReq(d, s, 1) : d \in Dates, s \in Slots}
    \cup {PromoReq("create", 0, PromoCreateBody(code, Num(50))) : code \in {<<"a">>, <<"B">>}}
    \cup {PromoReq("update", id, u) : id \in CrudIds, u \in PromoUpdates}
    \cup {PromoReq("delete", id, <<>>) : id \in CrudIds}
    \cup {MenuCreateReq(<<"a">>), OfferCreateReq(<<"t">>)}
    \cup {MenuReq("update", id, MenuBody(UndefStr, <<"e">>, UndefStr, UndefV, UndefStr, Undef)) :
            id \in CrudIds}
    \cup {MenuReq("delete", id, <<>>) : id \in CrudIds}
    \cup {OfferReq("update", id, u) : id \in CrudIds, u \in OfferUpdates}
    \cup {OfferReq("delete", id, <<>>) : id \in CrudIds}

ArriveCrud(r) ==
  \E q \in CrudReqs :
    /\ q.op = "create" => Len(files[q.coll]) < MaxCrud
    /\ \A c \in Colls \ {q.coll} : files[c] = <<>>
    /\ Arrive(r, q)

NextCrud ==
  \/ ArriveCrud("r1")
  \/ Begin("r1")
  \/ AfterRead("r1")
  \/ AfterWrite("r1")
  \/ Finish("r1")

SpecCrud == InitEmpty /\ [][NextCrud]_vars

\* C26: with requests handled one at a time from the empty stores, no two stored
\* entities of one collection have the same id.
C26_IdsUnique ==
  \A c \in Colls :
    \A i, j \in DOMAIN files[c] : files[c][i].id = files[c][j].id => i = j

\* after a deletion of entity 1 and a further creation, a collection holds the ids 2
\* and 3
C26_Witness ==
  \E c \in Colls :
    /\ Len(files[c]) = 2
    /\ files[c][1].id = 2
    /\ files[c][2].id = 3

\* the id a creation is to assign on the stored collection: one more than the largest
\* stored id, 1 on an empty collection
NextIdOf(list) ==
  IF list = <<>> THEN 1
  ELSE 1 + (CHOOSE m \in {list[i].id : i \in DOMAIN list} :
              \A i \in DOMAIN list : list[i].id <= m)

\* C27, as claimed: every successful create gives the new entity a positive integer id,
\* one more than the largest id stored in its collection and 1 when the collection is
\* empty, for bookings, menu items, offers and promo codes alike.
C27_Original ==
  [][\A r \in Reqs :
       (req[r].op = "create" /\ pc[r] = "reading" /\ pc'[r] = "writing"
          /\ res'[r].status = 201) =>
         /\ res'[r].payload[1].id = NextIdOf(files[req[r].coll])
         /\ local'[r][Len(local'[r])].id = NextIdOf(files[req[r].coll])
    ]_vars

\* C28, as claimed: the collection stored after a successful create is the collection
\* stored before it plus exactly the one new entity, also when the read of the file
\* has failed.
C28_Original ==
  [][\A r \in Reqs :
       (req[r].op = "create" /\ pc[r] = "writing" /\ pc'[r] = "done"
          /\ res'[r].status = 201) =>
         files'[req[r].coll] = Append(files[req[r].coll], res'[r].payload[1])
    ]_vars

(***************************************************************************)
(* One promo code created through the API, then validated again and again, *)
(* updated, or left to expire.  Requests are handled one at a time; r2 is  *)
(* a validation that follows the answered request r1.                      *)
(***************************************************************************)
\* creations of the code "A": no limit, a limit of 1, a limit below 1; no end or an
\* end at instant 1
UsageCreateReqs ==
  { PromoReq("create", 0,
             [PromoCreateBody(<<"a">>, Num(50)) EXCEPT !.usageLimit = l, !.endAt = e]) :
      l \in {UndefV, Num(1), Num(-1)}, e \in {UndefV, At(1)} }

\* an update that sets the usage count
UsageUpdate == PromoReq("update", 1, [usageCount |-> Num(1)])

\* no other request is between its arrival and its answer
Alone(r) == \A y \in Reqs \ {r} : ~InFlight(y)

ArriveUsageCreate(r) ==
  /\ Alone(r)
  /\ files["promo"] = <<>>
  /\ \E q \in UsageCreateReqs : Arrive(r, q)
ArriveUsageUpdate(r) == Alone(r) /\ Arrive(r, UsageUpdate)
ArriveUsageValidate(r) == Alone(r) /\ ArriveValidate(r)
ArriveValidateAgain(r) ==
  /\ \A y \in Reqs \ {r} : pc[y] = "done"
  /\ \E code \in {<<"a">>, <<"A">>} : Arrive(r, PromoReq("validate", 0, [code |-> code]))

NextUsage ==
  \/ ArriveUsageCreate("r1")
  \/ ArriveUsageUpdate("r1")
  \/ ArriveUsageValidate("r1")
  \/ ArriveValidateAgain("r2")
  \/ \E r \in Reqs : Begin(r)
  \/ \E r \in Reqs : AfterRead(r)
  \/ AfterWrite("r1")
  \/ \E r \in Reqs : Finish(r)
  \/ Tick

SpecUsage == InitEmpty /\ [][NextUsage]_vars

IsValidate(r) == req[r].coll = "promo" /\ req[r].op = "validate"

C30_ValidIsStrong ==
  \A r \in Reqs :
    (IsChecked(r) /\ local[r].isValid) => local[r].strength = "strong"

\* a valid password of exactly eight characters, which has five of the six points, has
\* been graded
C30_Witness ==
  \E r \in Reqs :
    /\ IsChecked(r)
    /\ local[r].isValid
    /\ Len(req[r].body.password) = 8
    /\ local[r].strength = "strong"

=============================================================================
